---- MODULE Spec2Model ----
(***************************************************************************)
(* Marvel Rivals statistics: the statistics library (src/utils/statistics  *)
(* .py), the win-rate estimator (src/analyzers/character_winrate.py) and   *)
(* the synergy estimator (src/analyzers/teammate_synergy.py).              *)
(*                                                                         *)
(* Numbers.  The code works on Python floats; the model works on exact     *)
(* integers in fixed units:                                                *)
(*   - rates (win rates, expected win rates, synergy scores, interval      *)
(*     bounds) are integers in units of 1e-4, the precision every rate is  *)
(*     rounded to by round(x, 4);                                          *)
(*   - p-values and significance levels are integers in units of 1e-6, the *)
(*     precision bonferroni_alpha is rounded to by round(x, 6);            *)
(*   - an unrounded quotient a/b is kept as the pair (a, b) and is only    *)
(*     compared or rounded by cross-multiplication.                        *)
(* round(x, n) is Python's correctly rounded round-half-to-even.           *)
(***************************************************************************)
EXTENDS Integers, Sequences, FiniteSets, TLC

\* ------------------------------------------------------------------ units
RATE_UNIT == 10000      \* 1.0 as a rate, in units of 1e-4
P_UNIT == 1000000       \* 1.0 as a probability, in units of 1e-6
P_PER_RATE == 100       \* 1e-4 in units of 1e-6

\* ----------------------------------------------------------------- bounds
MaxRows == 4            \* rows of the match log
MaxBatch == 3           \* records in a batch handed to bonferroni_correction
MaxGames == 33          \* games_together of a synergy record under SpecStats
MaxTotal == 11          \* small totals of a Wilson interval under SpecStats
LargeTotal == 100001    \* one large total under SpecStats

\* ------------------------------------------------------- Python's round()
Max(a, b) == IF a >= b THEN a ELSE b
Min(a, b) == IF a <= b THEN a ELSE b

\* n/d rounded to the nearest integer, ties to the even one (d > 0).
Round(n, d) ==
    LET q == n \div d
        r == n % d
    IN  IF 2 * r < d THEN q
        ELSE IF 2 * r > d THEN q + 1
        ELSE IF q % 2 = 0 THEN q ELSE q + 1

\* Floor of the square root of x (0 <= x < 2^31), by bisection.
RECURSIVE IsqrtIter(_, _, _)
IsqrtIter(x, lo, hi) ==
    IF lo >= hi THEN lo
    ELSE LET mid == (lo + hi + 1) \div 2
         IN  IF mid * mid <= x THEN IsqrtIter(x, mid, hi)
                               ELSE IsqrtIter(x, lo, mid - 1)

ISQRT_MAX == 46340      \* largest integer whose square is below 2^31
Isqrt(x) == IsqrtIter(x, 0, ISQRT_MAX)

\* The absent value (Python's None, SQL's NULL).
None == "None"

(***************************************************************************)
(* src/utils/statistics.py                                                 *)
(***************************************************************************)

\* z = norm.ppf(0.975), "1.96 for 95% confidence": z in units of 1e-2,
\* z^2 = 3.8416 in units of 1e-4.
Z_100 == 196
Z2_RATE == 38416

\* wilson_confidence_interval(wins, total) -> <<lower, upper>> in rate units.
\* The code's center and margin, both multiplied through by total:
\*   center = (wins + z^2/2) / (total + z^2)
\*   margin = z * sqrt(wins*(total-wins)/total + z^2/4) / (total + z^2)
\* with wins*(total-wins)/total = wins - wins^2/total kept in units of 1e-8.
\* The square root is floored at 1e-4, so a bound may differ from the float
\* result by one unit of 1e-4; it is exact for wins = 0 and wins = total.
WilsonNoGuard(wins, total) ==
    LET w2     == wins * wins * RATE_UNIT
        v8     == wins * RATE_UNIT * RATE_UNIT
                  - ((w2 \div total) * RATE_UNIT + ((w2 % total) * RATE_UNIT) \div total)
                  + (Z2_RATE \div 4) * RATE_UNIT
        root   == Isqrt(v8)                          \* sqrt(...), units of 1e-4
        margin == Z_100 * root                       \* units of 1e-6
        center == wins * P_UNIT + (Z2_RATE \div 2) * P_PER_RATE   \* units of 1e-6
        denom  == total * RATE_UNIT + Z2_RATE        \* total + z^2, units of 1e-4
        lower  == Max(0, center - margin)            \* max(0.0, center - margin)
        upper  == center + margin
        \* min(1.0, .) is applied after the rounding, which it commutes with
    IN  << Round(lower * P_PER_RATE, denom),
           Min(RATE_UNIT, Round(upper * P_PER_RATE, denom)) >>

\* A faulty variant of wilson_confidence_interval: the normal (Wald) approximation
\* p +/- z * sqrt(p * (1 - p) / total), not clamped.
wald_confidence_interval(wins, total) ==
    IF total = 0 THEN << 0, 0 >>
    ELSE LET p      == Round(wins * RATE_UNIT, total)
             margin == (Z_100 * Isqrt((p * (RATE_UNIT - p)) \div total)) \div 100
         IN  << p - margin, p + margin >>

\* The interval of a win rate above one half, computed on the losses: the
\* code's formula gives (lower, upper)(wins) = (1 - upper, 1 - lower)(total -
\* wins), and the losses keep the fixed-point products within 32 bits when
\* both wins and total are large.
WilsonMirrored(wins, total) ==
    LET m == WilsonNoGuard(total - wins, total)
    IN  << RATE_UNIT - m[2], RATE_UNIT - m[1] >>

\* A faulty variant of wilson_confidence_interval: without games the interval
\* is the whole of [0, 1].
wilson_confidence_interval_unit(wins, total) ==
    IF total = 0 THEN << 0, RATE_UNIT >>
    ELSE IF 2 * wins > total THEN WilsonMirrored(wins, total)
    ELSE WilsonNoGuard(wins, total)

\* wilson_confidence_interval(wins, total): "if total == 0: return (0.0, 0.0)".
wilson_confidence_interval(wins, total) ==
    IF total = 0 THEN << 0, 0 >>
    ELSE IF 2 * wins > total THEN WilsonMirrored(wins, total)
    ELSE WilsonNoGuard(wins, total)

\* calculate_win_rate(wins, losses): round(wins / total, 4).
calculate_win_rate(wins, losses) ==
    LET total == wins + losses
    IN  IF total = 0 THEN 0 ELSE Round(wins * RATE_UNIT, total)

\* A faulty variant of expected_wr_average: the first hero's own win rate is
\* taken as the pair's expectation.
expected_wr_average_first(wr_a, wr_b) == wr_a

\* expected_wr_average(wr_a, wr_b): round((wr_a + wr_b) / 2.0, 4).
expected_wr_average(wr_a, wr_b) == Round(wr_a + wr_b, 2)

\* A faulty variant of expected_wr_average_fine: the fifth decimal and
\* beyond are cut off, not rounded.
expected_wr_average_fine_cut(wr_a, wr_b) == (wr_a + wr_b) \div (2 * P_PER_RATE)

\* expected_wr_average(wr_a, wr_b) on arguments of six decimals, in units of
\* 1e-6: round((wr_a + wr_b) / 2.0, 4), the result in units of 1e-4.
expected_wr_average_fine(wr_a, wr_b) == Round(wr_a + wr_b, 2 * P_PER_RATE)

\* expected_wr_additive(wr_a, wr_b): 0.5 + (a - 0.5) + (b - 0.5), capped to [0, 1].
expected_wr_additive(wr_a, wr_b) ==
    LET baseline == RATE_UNIT \div 2
        result   == baseline + (wr_a - baseline) + (wr_b - baseline)
    IN  Max(0, Min(RATE_UNIT, result))

\* calculate_expected_win_rate(wr_a, wr_b): the deprecated multiplicative model.
calculate_expected_win_rate(wr_a, wr_b) == Round(wr_a * wr_b, RATE_UNIT)

\* a * r, for a probability a in units of 1e-8 and a rate r, in units of 1e-8.
MulRate(a, r) == (a \div RATE_UNIT) * r + ((a % RATE_UNIT) * r) \div RATE_UNIT

RECURSIVE PowMul(_, _, _)
PowMul(acc, r, k) == IF k = 0 THEN acc ELSE PowMul(MulRate(acc, r), r, k - 1)

RECURSIVE Choose(_, _)
Choose(n, k) == IF k = 0 THEN 1 ELSE (Choose(n, k - 1) * (n - k + 1)) \div k

\* P(X = k) for X ~ Binomial(n, p), in units of 1e-8.
BinomPmf(k, n, p) ==
    Choose(n, k) * PowMul(PowMul(RATE_UNIT * RATE_UNIT, p, k), RATE_UNIT - p, n - k)

RECURSIVE SumUpTo(_, _)
SumUpTo(f, n) == IF n < 0 THEN 0 ELSE f[n] + SumUpTo(f, n - 1)

\* scipy.stats.binomtest(wins, total, expected_wr, "two-sided").pvalue in units
\* of 1e-8: the total probability of the outcomes no more likely than the one
\* observed.
BinomTestPValue(wins, total, expected_wr) ==
    LET pmf == [i \in 0..total |-> BinomPmf(i, total, expected_wr)]
        far == [i \in 0..total |-> IF pmf[i] <= pmf[wins] THEN pmf[i] ELSE 0]
    IN  Min(RATE_UNIT * RATE_UNIT, SumUpTo(far, total))

\* binomial_test_synergy(wins, total, expected_wr, alpha): p_value is rounded to
\* 4 decimals, significant compares the unrounded p-value with alpha.
binomial_test_synergy(wins, total, expected_wr, alpha) ==
    LET pvalue == BinomTestPValue(wins, total, expected_wr)
    IN  [ p_value     |-> Round(pvalue, RATE_UNIT) * P_PER_RATE,
          significant |-> pvalue < alpha * P_PER_RATE ]

\* A faulty variant of CorrectedAlpha: the batch counted one too large.
CorrectedAlphaOffByOne(alpha, n_comparisons) == [num |-> alpha, den |-> n_comparisons + 1]

\* The threshold bonferroni_correction compares with: alpha / n_comparisons,
\* unrounded, as the quotient (num, den).
CorrectedAlpha(alpha, n_comparisons) == [num |-> alpha, den |-> n_comparisons]

\* p < q for a number p and a quotient q.
LessThanQuot(p, q) == p * q.den < q.num

\* bonferroni_correction(synergies, alpha): every record gets
\* significant_bonferroni and bonferroni_alpha; an empty batch is returned as is.
bonferroni_correction(synergies, alpha) ==
    LET n_comparisons == Len(synergies)
        corrected_alpha == CorrectedAlpha(alpha, n_comparisons)
    IN  IF n_comparisons = 0 THEN synergies
        ELSE [ i \in 1..n_comparisons |->
                 [ significant_bonferroni |->
                       LessThanQuot(synergies[i].p_value, corrected_alpha),
                   bonferroni_alpha |-> Round(corrected_alpha.num, corrected_alpha.den) ]
                 @@ synergies[i] ]

(***************************************************************************)
(* src/analyzers/teammate_synergy.py: the pure helpers                     *)
(***************************************************************************)
SAMPLE_SIZE_HIGH_CONFIDENCE == 500
SAMPLE_SIZE_MEDIUM_CONFIDENCE == 100

\* A faulty variant of calculate_synergy_score: the score taken from the rounded actual rate.
calculate_synergy_score_rounded(actual_wr, expected_wr) ==
    Round(actual_wr.num * RATE_UNIT, actual_wr.den) - expected_wr

\* calculate_synergy_score(actual_wr, expected_wr): round(actual_wr - expected_wr, 4)
\* for the unrounded quotient actual_wr = (num, den) and the rate expected_wr.
calculate_synergy_score(actual_wr, expected_wr) ==
    Round(actual_wr.num * RATE_UNIT - expected_wr * actual_wr.den, actual_wr.den)

\* A faulty variant of add_sample_size_warning: the levels start above their
\* thresholds.
add_sample_size_warning_above(games_together) ==
    IF games_together > SAMPLE_SIZE_HIGH_CONFIDENCE THEN << "high", None >>
    ELSE IF games_together > SAMPLE_SIZE_MEDIUM_CONFIDENCE
         THEN << "medium", [kind |-> "Moderate sample size", games |-> games_together] >>
         ELSE << "low", [kind |-> "Low sample size", games |-> games_together] >>

\* add_sample_size_warning(games_together) -> <<confidence_level, warning>>; the
\* warning text is kept as its kind and the game count it cites.
add_sample_size_warning(games_together) ==
    IF games_together >= SAMPLE_SIZE_HIGH_CONFIDENCE THEN << "high", None >>
    ELSE IF games_together >= SAMPLE_SIZE_MEDIUM_CONFIDENCE
         THEN << "medium", [kind |-> "Moderate sample size", games |-> games_together] >>
         ELSE << "low", [kind |-> "Low sample size", games |-> games_together] >>

\* The rates of one synergy record (analyze_teammate_synergies, the loop over
\* teammate_stats): actual_wr = wins / games is not rounded before the score is
\* taken; the record keeps round(actual_wr, 4).
synergy_rates(stats, hero_wr, teammate_wr) ==
    LET actual_wr     == [num |-> stats.wins, den |-> stats.games]
        expected_wr   == expected_wr_average(hero_wr, teammate_wr)
        synergy_score == calculate_synergy_score(actual_wr, expected_wr)
    IN  [ actual_win_rate   |-> Round(actual_wr.num * RATE_UNIT, actual_wr.den),
          expected_win_rate |-> expected_wr,
          synergy_score     |-> synergy_score ]

\* One synergy record, as appended to the hero's batch.
synergy_data(teammate, stats, hero_wr, teammate_wr, alpha) ==
    LET rates      == synergy_rates(stats, hero_wr, teammate_wr)
        ci         == wilson_confidence_interval(stats.wins, stats.games)
        sig_result == binomial_test_synergy(stats.wins, stats.games,
                                            rates.expected_win_rate, alpha)
        warning    == add_sample_size_warning(stats.games)
    IN  [ teammate               |-> teammate,
          games_together         |-> stats.games,
          wins_together          |-> stats.wins,
          confidence_interval_95 |-> ci,
          p_value                |-> sig_result.p_value,
          significant            |-> sig_result.significant,
          confidence_level       |-> warning[1],
          sample_size_warning    |-> warning[2] ] @@ rates

(***************************************************************************)
(* Sets, sums and orders                                                   *)
(***************************************************************************)
RECURSIVE SumOver(_, _)
\* The sum of f[x] over the x of S.
SumOver(f, S) ==
    IF S = {} THEN 0
    ELSE LET x == CHOOSE y \in S : TRUE IN f[x] + SumOver(f, S \ {x})

RECURSIVE SortedSeq(_)
\* The numbers of S in increasing order (SQL's ORDER BY).
SortedSeq(S) ==
    IF S = {} THEN << >>
    ELSE LET x == CHOOSE y \in S : \A z \in S : y <= z
         IN  << x >> \o SortedSeq(S \ {x})

\* COALESCE(rank_tier, ''), the key of the upserts.
Coalesce(rank_tier) == IF rank_tier = None THEN "" ELSE rank_tier

(***************************************************************************)
(* State                                                                   *)
(***************************************************************************)
VARIABLES
    call,                \* the last call of a library function: arguments, result
    baseline,            \* scripts/analyze_synergies.py: args.baseline
    match_participants,  \* the match log: rows of match_participants JOIN players
    min_games_per_rank,  \* parameters of the analysis runs
    min_games_overall,
    min_games_together,
    alpha,
    character_stats,     \* table character_stats, as the connection sees it
    synergy_stats,       \* table synergy_stats, as the connection sees it
    pc,                  \* "idle", "winrate" or "synergy": the run in progress
    heroes,              \* the heroes the running loop has still to visit
    rank_tier,           \* analyze_teammate_synergies' rank_tier argument
    char_win_rates,      \* analyze_teammate_synergies' char_win_rates
    wr_results,          \* analyze_character_win_rates' results
    syn_results,         \* analyze_teammate_synergies' results
    batch,               \* per hero visited: its full sorted synergies list
    done,                \* the analyses that have returned their results
    durable_character_stats,  \* table character_stats, the committed rows
    durable_synergy_stats,    \* table synergy_stats, the committed rows
    txn,                 \* the hero under way in a stepwise run: upserts to come
    run_start,           \* the committed tables when the stepwise run began
    committed,           \* the heroes the stepwise run has committed, in order
    ended,               \* how a stepwise run ended early: crash or error
    match_history_fetched,  \* table players: username -> match_history_fetched
    matches_table,       \* table matches: the match_id of its rows, in insertion order
    participant_rows,    \* table match_participants as the collector writes it:
                         \* the (match_id, username) keys of its rows
    collect,             \* the frame of the current or last collect_matches run
    faults,              \* the failures and interruptions so far
    clock,               \* time.time(), in ticks
    last_request_time,   \* RateLimiter.last_request_time
    lock,                \* RateLimiter.lock: the thread holding it, 0 when free
    threads,             \* per thread: its position in wait_if_needed
    stamped,             \* the values assigned to last_request_time, in order
    returned             \* the clock at each return of wait_if_needed, in order

pipeline == << baseline, match_participants, min_games_per_rank, min_games_overall,
               min_games_together, alpha, character_stats, synergy_stats, pc,
               heroes, rank_tier, char_win_rates, wr_results, syn_results,
               batch, done >>

\* The state of the stepwise runs (SpecCrash); the other specifications
\* take each hero's turn, commit included, as one step and leave it alone.
session == << durable_character_stats, durable_synergy_stats, txn, run_start,
              committed, ended >>

\* The state of the match collector (SpecCollect).
collection == << match_history_fetched, matches_table, participant_rows, collect, faults >>

\* The state of the API client's rate limiter (SpecLimiter).
limiter == << clock, last_request_time, lock, threads, stamped, returned >>

vars == << call, pipeline, session, collection, limiter >>

Heroes == { 1, 2, 3 }       \* hero names, in alphabetical order
Tiers == { "Gold", "Silver" }
Empty == [x \in {} |-> 0]   \* the empty dict

(***************************************************************************)
(* src/analyzers/character_winrate.py                                      *)
(***************************************************************************)

\* A faulty variant of calculate_win_rate_stats: losses takes the total.
calculate_win_rate_stats_losses(wins, total) ==
    [ total_games |-> total,
      wins        |-> wins,
      losses      |-> total,
      win_rate    |-> IF total > 0 THEN Round(wins * RATE_UNIT, total) ELSE 0,
      confidence_interval_95 |-> wilson_confidence_interval(wins, total) ]

\* calculate_win_rate_stats(wins, total)
calculate_win_rate_stats(wins, total) ==
    [ total_games |-> total,
      wins        |-> wins,
      losses      |-> total - wins,
      win_rate    |-> IF total > 0 THEN Round(wins * RATE_UNIT, total) ELSE 0,
      confidence_interval_95 |-> wilson_confidence_interval(wins, total) ]

\* group_matches_by_rank(matches): rank_tier -> wins and losses.
group_matches_by_rank(matches) ==
    [ rank \in { m.rank_tier : m \in matches } |->
        [ wins   |-> Cardinality({ m \in matches : m.rank_tier = rank /\ m.won }),
          losses |-> Cardinality({ m \in matches : m.rank_tier = rank /\ ~m.won }) ] ]

\* A faulty variant of character_winrate.query_hero_matches: the rows of
\* players without a rank tier are kept (no "p.rank_tier IS NOT NULL").
winrate_query_hero_matches_unranked(rows, hero_name) ==
    { r \in rows : r.hero_name = hero_name }

\* character_winrate.query_hero_matches(conn, hero_name): the hero's rows whose
\* player has a rank tier.
winrate_query_hero_matches(rows, hero_name) ==
    { r \in rows : r.hero_name = hero_name /\ r.rank_tier # None }

\* get_all_heroes(conn): SELECT DISTINCT hero_name ... ORDER BY hero_name.
get_all_heroes(rows) == SortedSeq({ r.hero_name : r \in rows })

\* A faulty variant of cache_character_stats: on conflict the games are added
\* to the row's games (total_games = total_games + EXCLUDED.total_games).
cache_character_stats_adding(table, hero_name, tier, stats) ==
    LET old == { r \in table : r.hero_name = hero_name
                               /\ Coalesce(r.rank_tier) = Coalesce(tier) }
    IN  (table \ old)
        \cup { [ hero_name   |-> hero_name,
                 rank_tier   |-> tier,
                 total_games |-> stats.total_games
                                 + SumOver([ r \in old |-> r.total_games ], old),
                 wins        |-> stats.wins,
                 losses      |-> stats.losses,
                 win_rate    |-> stats.win_rate,
                 confidence_interval_lower |-> stats.confidence_interval_95[1],
                 confidence_interval_upper |-> stats.confidence_interval_95[2] ] }

\* cache_character_stats(conn, hero_name, rank_tier, stats): the upsert on
\* (hero_name, COALESCE(rank_tier, '')), as the table after it.
cache_character_stats(table, hero_name, tier, stats) ==
    { r \in table : ~(r.hero_name = hero_name /\ Coalesce(r.rank_tier) = Coalesce(tier)) }
    \cup { [ hero_name   |-> hero_name,
             rank_tier   |-> tier,
             total_games |-> stats.total_games,
             wins        |-> stats.wins,
             losses      |-> stats.losses,
             win_rate    |-> stats.win_rate,
             confidence_interval_lower |-> stats.confidence_interval_95[1],
             confidence_interval_upper |-> stats.confidence_interval_95[2] ] }

RECURSIVE CacheRanks(_, _, _, _)
\* The loop's cache_character_stats calls, for the ranks of rank_stats.
CacheRanks(table, hero, rank_stats, ranks) ==
    IF ranks = {} THEN table
    ELSE LET rank == CHOOSE x \in ranks : TRUE
         IN  CacheRanks(cache_character_stats(table, hero, rank, rank_stats[rank]),
                        hero, rank_stats, ranks \ {rank})

\* A faulty variant of RankPasses: the per-rank threshold compared with > instead of >=.
RankPassesStrict(total, min_games) == total > min_games

\* The per-rank threshold: "if total < min_games_per_rank: continue".
RankPasses(total, min_games) == ~(total < min_games)

\* A faulty variant of HeroPasses: the overall threshold off by one.
HeroPassesStrict(n_matches, min_games) == n_matches > min_games

\* The overall threshold: "if len(matches) < min_games_overall: continue".
HeroPasses(n_matches, min_games) == ~(n_matches < min_games)

\* A faulty variant of OverallStats: the overall record summed over the retained ranks only.
OverallStatsRetained(by_rank, retained) ==
    LET total_wins   == SumOver([r \in DOMAIN by_rank |-> by_rank[r].wins], retained)
        total_losses == SumOver([r \in DOMAIN by_rank |-> by_rank[r].losses], retained)
    IN  calculate_win_rate_stats(total_wins, total_wins + total_losses)

\* The overall record: the sums of wins and losses over by_rank.values().
OverallStats(by_rank, retained) ==
    LET total_wins   == SumOver([r \in DOMAIN by_rank |-> by_rank[r].wins], DOMAIN by_rank)
        total_losses == SumOver([r \in DOMAIN by_rank |-> by_rank[r].losses], DOMAIN by_rank)
    IN  calculate_win_rate_stats(total_wins, total_wins + total_losses)

\* analyze_character_win_rates: the call up to its loop.
StartWinRate ==
    /\ UNCHANGED << session, collection, limiter >>
    /\ pc = "idle"
    /\ pc' = "winrate"
    /\ heroes' = get_all_heroes(match_participants)
    /\ wr_results' = Empty
    /\ done' = done \ {"winrate"}
    /\ UNCHANGED << call, baseline, match_participants, min_games_per_rank, min_games_overall,
                    min_games_together, alpha, character_stats, synergy_stats,
                    rank_tier, char_win_rates, syn_results, batch >>

\* analyze_character_win_rates: one turn of "for hero in heroes", commit included.
AnalyzeCharacter ==
    /\ UNCHANGED << session, collection, limiter >>
    /\ pc = "winrate" /\ heroes # << >>
    /\ LET hero    == Head(heroes)
           matches == winrate_query_hero_matches(match_participants, hero)
       IN  IF ~HeroPasses(Cardinality(matches), min_games_overall)
           THEN UNCHANGED << character_stats, wr_results >>
           ELSE LET by_rank  == group_matches_by_rank(matches)
                    retained == { rank \in DOMAIN by_rank :
                                    RankPasses(by_rank[rank].wins + by_rank[rank].losses,
                                               min_games_per_rank) }
                    rank_stats == [ rank \in retained |->
                                      calculate_win_rate_stats(
                                          by_rank[rank].wins,
                                          by_rank[rank].wins + by_rank[rank].losses) ]
                    overall_stats == OverallStats(by_rank, retained)
                IN  /\ character_stats' =
                         cache_character_stats(
                             CacheRanks(character_stats, hero, rank_stats, retained),
                             hero, None, overall_stats)
                    /\ wr_results' = (hero :> [ hero    |-> hero,
                                               overall |-> overall_stats,
                                               by_rank |-> rank_stats ]) @@ wr_results
    /\ heroes' = Tail(heroes)
    /\ UNCHANGED << call, baseline, match_participants, min_games_per_rank, min_games_overall,
                    min_games_together, alpha, synergy_stats, pc, rank_tier,
                    char_win_rates, syn_results, batch, done >>

\* analyze_character_win_rates: the return of results.
FinishWinRate ==
    /\ UNCHANGED << session, collection, limiter >>
    /\ pc = "winrate" /\ heroes = << >>
    /\ pc' = "idle"
    /\ done' = done \cup {"winrate"}
    /\ UNCHANGED << call, baseline, match_participants, min_games_per_rank, min_games_overall,
                    min_games_together, alpha, character_stats, synergy_stats,
                    heroes, rank_tier, char_win_rates, wr_results, syn_results, batch >>

(***************************************************************************)
(* src/analyzers/teammate_synergy.py: the analysis                         *)
(***************************************************************************)
TOP_N_SYNERGIES == 1    \* 10 in the source; scaled to the model's hero count

\* load_character_win_rates(conn): hero_name -> win_rate of the rows whose
\* rank_tier IS NULL.
load_character_win_rates(table) ==
    [ h \in { r.hero_name : r \in { x \in table : x.rank_tier = None } } |->
        (CHOOSE r \in table : r.hero_name = h /\ r.rank_tier = None).win_rate ]

\* A faulty variant of synergy_query_hero_matches: only the rows of ranked
\* players, as the win-rate query returns them.
synergy_query_hero_matches_ranked(rows, hero_name) ==
    { r \in rows : r.hero_name = hero_name /\ r.rank_tier # None }

\* teammate_synergy.query_hero_matches(conn, hero_name): every row of the hero.
synergy_query_hero_matches(rows, hero_name) ==
    { r \in rows : r.hero_name = hero_name }

\* query_match_teammates(conn, match_id, team, exclude_hero): the rows whose
\* hero_name the query returns, one list element per row.
query_match_teammates(rows, match_id, team, exclude_hero) ==
    { x \in rows : x.match_id = match_id /\ x.team = team
                   /\ x.hero_name # exclude_hero }

\* teammate_stats after the loop over hero_matches: teammate -> games and wins,
\* one increment per returned teammate row of every row of the hero.
TeammateStats(rows, hero) ==
    LET hero_matches == synergy_query_hero_matches(rows, hero)
        mates(m)     == query_match_teammates(rows, m.match_id, m.team, hero)
        teammates    == UNION { { r.hero_name : r \in mates(m) } : m \in hero_matches }
        count(t, ms) == SumOver([ m \in ms |->
                                    Cardinality({ r \in mates(m) : r.hero_name = t }) ], ms)
    IN  [ t \in teammates |->
            [ games |-> count(t, hero_matches),
              wins  |-> count(t, { m \in hero_matches : m.won }) ] ]

\* A faulty variant of TeammateRetained: the games threshold is not applied.
TeammateRetainedNoGamesCheck(stats, teammate, min_games, win_rates) ==
    teammate \in DOMAIN win_rates

\* The two filters of the loop over teammate_stats: "if stats['games'] <
\* min_games_together: continue" and "if teammate not in char_win_rates: continue".
TeammateRetained(stats, teammate, min_games, win_rates) ==
    /\ ~(stats.games < min_games)
    /\ teammate \in DOMAIN win_rates

RECURSIVE InsertByScore(_, _)
\* x put into the list l, sorted by synergy_score descending, behind its equals.
InsertByScore(l, x) ==
    IF l = << >> THEN << x >>
    ELSE IF Head(l).synergy_score >= x.synergy_score
         THEN << Head(l) >> \o InsertByScore(Tail(l), x)
         ELSE << x >> \o l

RECURSIVE SortByScore(_)
\* A faulty variant of SortByScore: the list is left in the order it was built.
SortByScoreUnsorted(l) == l

\* synergies.sort(key=synergy_score, reverse=True): a stable sort.
SortByScore(l) ==
    IF l = << >> THEN << >>
    ELSE InsertByScore(SortByScore(SubSeq(l, 1, Len(l) - 1)), l[Len(l)])

\* The orders in which teammate_stats may hold its keys: by the first match
\* (ORDER BY match_id) a teammate appears in; the rows of one roster come in
\* whatever order the database returns them.
TeammateOrders(rows, hero) ==
    LET hero_matches == synergy_query_hero_matches(rows, hero)
        mates(m)     == { r.hero_name :
                            r \in query_match_teammates(rows, m.match_id, m.team, hero) }
        teammates    == UNION { mates(m) : m \in hero_matches }
        first(t)     == CHOOSE id \in { m.match_id : m \in { x \in hero_matches :
                                                              t \in mates(x) } } :
                            \A m \in hero_matches : t \in mates(m) => id <= m.match_id
    IN  { o \in [1..Cardinality(teammates) -> teammates] :
            /\ \A t \in teammates : \E i \in DOMAIN o : o[i] = t
            /\ \A i, j \in DOMAIN o : i < j => first(o[i]) <= first(o[j]) }

\* The hero's synergies list as the loop over teammate_stats.items() builds
\* it, one record per retained teammate, before the correction.
RetainedSynergies(rows, hero, win_rates, min_games, a, order) ==
    LET teammate_stats == TeammateStats(rows, hero)
        kept  == SelectSeq(order,
                     LAMBDA t : TeammateRetained(teammate_stats[t], t, min_games,
                                                 win_rates))
    IN  [ i \in 1..Len(kept) |->
            synergy_data(kept[i], teammate_stats[kept[i]],
                         win_rates[hero], win_rates[kept[i]], a) ]

\* A faulty variant of HeroSynergies: the list is cut to the top N before the correction.
HeroSynergiesCutFirst(rows, hero, win_rates, min_games, a, order) ==
    LET sorted == SortByScore(RetainedSynergies(rows, hero, win_rates, min_games, a,
                                                order))
    IN  bonferroni_correction(SubSeq(sorted, 1, Min(TOP_N_SYNERGIES, Len(sorted))), a)

\* The hero's synergies list: "if synergies: synergies =
\* bonferroni_correction(synergies, alpha)" and then the sort.
HeroSynergies(rows, hero, win_rates, min_games, a, order) ==
    LET synergies == RetainedSynergies(rows, hero, win_rates, min_games, a, order)
        corrected == IF synergies # << >> THEN bonferroni_correction(synergies, a)
                                          ELSE synergies
    IN  SortByScore(corrected)

\* A faulty variant of MaxGamesTogether: a teammate exactly at the games
\* threshold is not counted.
MaxGamesTogetherStrict(rows, hero, min_games) ==
    LET teammate_stats == TeammateStats(rows, hero)
        passed == { teammate_stats[t].games :
                      t \in { x \in DOMAIN teammate_stats :
                                teammate_stats[x].games > min_games } }
    IN  IF passed = {} THEN 0 ELSE CHOOSE g \in passed : \A h \in passed : h <= g

\* max_games: the most games of a teammate that passed the games threshold.
MaxGamesTogether(rows, hero, min_games) ==
    LET teammate_stats == TeammateStats(rows, hero)
        passed == { teammate_stats[t].games :
                      t \in { x \in DOMAIN teammate_stats :
                                ~(teammate_stats[x].games < min_games) } }
    IN  IF passed = {} THEN 0 ELSE CHOOSE g \in passed : \A h \in passed : h <= g

\* A faulty variant of CanonicalPair: the pair stored as it was passed.
CanonicalPairAsPassed(hero_a, hero_b) == << hero_a, hero_b >>

\* "if hero_a > hero_b: hero_a, hero_b = hero_b, hero_a"
CanonicalPair(hero_a, hero_b) ==
    IF hero_a > hero_b THEN << hero_b, hero_a >> ELSE << hero_a, hero_b >>

\* cache_synergy_stats(conn, hero_a, hero_b, rank_tier, ...): the upsert on
\* (hero_a, hero_b, COALESCE(rank_tier, '')), as the table after it.
cache_synergy_stats(table, hero_a, hero_b, tier, synergy, baseline_model) ==
    LET pair == CanonicalPair(hero_a, hero_b)
    IN  { r \in table : ~(r.hero_a = pair[1] /\ r.hero_b = pair[2]
                          /\ Coalesce(r.rank_tier) = Coalesce(tier)) }
        \cup { [ hero_a            |-> pair[1],
                 hero_b            |-> pair[2],
                 rank_tier         |-> tier,
                 games_together    |-> synergy.games_together,
                 wins_together     |-> synergy.wins_together,
                 win_rate          |-> synergy.actual_win_rate,
                 expected_win_rate |-> synergy.expected_win_rate,
                 synergy_score     |-> synergy.synergy_score,
                 confidence_lower  |-> synergy.confidence_interval_95[1],
                 confidence_upper  |-> synergy.confidence_interval_95[2],
                 p_value           |-> synergy.p_value,
                 sample_size_warning |-> synergy.sample_size_warning,
                 baseline_model    |-> baseline_model ] }

RECURSIVE CacheSynergies(_, _, _, _)
\* "for synergy in synergies: cache_synergy_stats(conn, hero, ...)"
CacheSynergies(table, hero, tier, synergies) ==
    IF synergies = << >> THEN table
    ELSE CacheSynergies(
             cache_synergy_stats(table, hero, Head(synergies).teammate, tier,
                                 Head(synergies), "average"),
             hero, tier, Tail(synergies))

Z_ALPHA == 195996       \* norm.ppf(1 - 0.05 / 2) = 1.95996..., in 1e-5
Z_BETA == 84162         \* norm.ppf(0.80) = 0.84162..., in 1e-5

\* np.sqrt(p * (1 - p)) of a rate p, to the nearest 1e-4.
SqrtVariance(p) == (Isqrt(4 * p * (RATE_UNIT - p)) + 1) \div 2

\* calculate_required_sample_size(baseline_wr, effect_size) at the default
\* alpha = 0.05 and power = 0.80: ceil(((z_alpha * sqrt(p0 * (1 - p0)) +
\* z_beta * sqrt(p1 * (1 - p1))) / effect_size) ** 2), rates in 1e-4. The
\* quotient is kept to 1e-5 and squared as whole part a plus fraction b.
calculate_required_sample_size(baseline_wr, effect_size) ==
    LET p0 == baseline_wr
        p1 == baseline_wr + effect_size
        t  == Z_ALPHA * SqrtVariance(p0) + Z_BETA * SqrtVariance(p1)
        r  == t \div effect_size
        a  == r \div 100000
        b  == (r % 100000) \div 10
        fraction == 2 * a * b + (b * b) \div RATE_UNIT
    IN  a * a + (fraction + RATE_UNIT - 1) \div RATE_UNIT

\* None where a power-analysis block is expected.
NoBlock == << >>

\* calculate_power_analysis(max_games_together, baseline_wr=0.5)
calculate_power_analysis(max_games_together) ==
    LET required_3pct  == calculate_required_sample_size(5000, 300)
        required_5pct  == calculate_required_sample_size(5000, 500)
        required_10pct == calculate_required_sample_size(5000, 1000)
    IN  [ current_max_samples        |-> max_games_together,
          required_for_3pct_synergy  |-> required_3pct,
          required_for_5pct_synergy  |-> required_5pct,
          required_for_10pct_synergy |-> required_10pct,
          can_detect_effects |->
              IF max_games_together >= required_3pct THEN ">=3%"
              ELSE IF max_games_together >= required_5pct THEN ">=5%"
              ELSE IF max_games_together >= required_10pct THEN ">=10%"
              ELSE ">10% (low power)" ]

RankTierArgs == { None, "Gold" }

\* analyze_teammate_synergies: the call up to its loop; without cached win
\* rates it returns {} at once.
StartSynergy ==
    /\ UNCHANGED << session, collection, limiter >>
    /\ pc = "idle"
    /\ \E tier \in RankTierArgs :
         LET rates == load_character_win_rates(character_stats)
         IN  /\ rank_tier' = tier
             /\ char_win_rates' = rates
             /\ syn_results' = Empty
             /\ batch' = Empty
             /\ IF DOMAIN rates = {}
                THEN /\ pc' = "idle"
                     /\ heroes' = << >>
                     /\ done' = done \cup {"synergy"}
                ELSE /\ pc' = "synergy"
                     /\ heroes' = SortedSeq(DOMAIN rates)
                     /\ done' = done \ {"synergy"}
    /\ UNCHANGED << call, baseline, match_participants, min_games_per_rank, min_games_overall,
                    min_games_together, alpha, character_stats, synergy_stats,
                    wr_results >>

\* analyze_teammate_synergies: one turn of "for hero in heroes", commit included.
AnalyzeHero ==
    /\ UNCHANGED << session, collection, limiter >>
    /\ pc = "synergy" /\ heroes # << >>
    /\ LET hero == Head(heroes)
       IN  IF synergy_query_hero_matches(match_participants, hero) = {}
           THEN UNCHANGED << synergy_stats, syn_results, batch >>
           ELSE \E order \in TeammateOrders(match_participants, hero) :
                LET synergies == HeroSynergies(match_participants, hero, char_win_rates,
                                               min_games_together, alpha, order)
                    max_games == MaxGamesTogether(match_participants, hero,
                                                  min_games_together)
                IN  /\ synergy_stats' =
                         CacheSynergies(synergy_stats, hero, rank_tier, synergies)
                    /\ batch' = (hero :> synergies) @@ batch
                    /\ syn_results' =
                         (hero :> [ hero      |-> hero,
                                    rank_tier |-> IF rank_tier # None THEN rank_tier
                                                                      ELSE "all",
                                    synergies |-> SubSeq(synergies, 1,
                                                     Min(TOP_N_SYNERGIES, Len(synergies))),
                                    power_analysis |->
                                        IF max_games > 0
                                        THEN calculate_power_analysis(max_games)
                                        ELSE NoBlock ]) @@ syn_results
    /\ heroes' = Tail(heroes)
    /\ UNCHANGED << call, baseline, match_participants, min_games_per_rank, min_games_overall,
                    min_games_together, alpha, character_stats, pc, rank_tier,
                    char_win_rates, wr_results, done >>

\* analyze_teammate_synergies: the return of results.
FinishSynergy ==
    /\ UNCHANGED << session, collection, limiter >>
    /\ pc = "synergy" /\ heroes = << >>
    /\ pc' = "idle"
    /\ done' = done \cup {"synergy"}
    /\ UNCHANGED << call, baseline, match_participants, min_games_per_rank, min_games_overall,
                    min_games_together, alpha, character_stats, synergy_stats,
                    heroes, rank_tier, char_win_rates, wr_results, syn_results, batch >>

(***************************************************************************)
(* Spec: the two estimators over a match log of at most MaxRows rows      *)
(***************************************************************************)
MinGamesRankArgs == { 2 }
MinGamesOverallArgs == { 1, 2 }
MinGamesTogetherArgs == { 1, 2 }
AlphaArgs == { 50001 }    \* 0.050001: halves to no 6-decimal number

Matches == { 1, 2 }         \* match ids, in ORDER BY match_id order

\* The rows of match m: every hero is absent (2) or on team 0 or 1, the team
\* m % 2 wins; rank_tier is the tier of the row's player (players.rank_tier),
\* None for a player without one; the players of one match share it.
MatchRows(m, slot, tier) ==
    { [ match_id |-> m, hero_name |-> h, team |-> slot[h], won |-> (slot[h] = m % 2),
        rank_tier |-> tier ] : h \in { x \in Heroes : slot[x] # 2 } }

Slots == [Heroes -> {0, 1, 2}]

\* The match logs of at most max rows.
Logs(max) ==
    { log \in { UNION { MatchRows(m, ss[m], tt[m]) : m \in Matches } :
                  ss \in [Matches -> Slots], tt \in [Matches -> Tiers \cup {None}] } :
        Cardinality(log) <= max }

NoTxn == << >>
NoEnd == << >>
\* No stepwise run has taken place.
NoSession ==
    /\ durable_character_stats = {} /\ durable_synergy_stats = {}
    /\ txn = NoTxn /\ run_start = << {}, {} >>
    /\ committed = << >> /\ ended = NoEnd

CollectPlayers == { 1, 2, 3 }   \* usernames, in discovered_at order
NoRun == << >>
\* The collector's database before any collection: the players discovered,
\* no match history fetched.
NoCollection ==
    /\ match_history_fetched = [ p \in CollectPlayers |-> FALSE ]
    /\ matches_table = << >> /\ participant_rows = {}
    /\ collect = NoRun /\ faults = 0

Threads == { 1, 2 }             \* the threads sharing one RateLimiter
Minute == 6                     \* 60.0 seconds, in ticks of the clock
RequestsPerMinute == 3          \* RateLimiter(requests_per_minute)
\* time.time() when the limiter is made: far more than a minute after 0.
Epoch == Minute + 1
\* RateLimiter.__init__: last_request_time = 0, the lock free; no call yet.
NoLimiter ==
    /\ clock = Epoch /\ last_request_time = 0 /\ lock = 0
    /\ threads = [ t \in Threads |-> [ pc |-> "idle", wake |-> 0 ] ]
    /\ stamped = << >> /\ returned = << >>

NoPipeline ==
    /\ baseline = "average"
    /\ match_participants = {}
    /\ min_games_per_rank = 1 /\ min_games_overall = 1 /\ min_games_together = 1
    /\ alpha = 50000
    /\ character_stats = {} /\ synergy_stats = {}
    /\ pc = "idle" /\ heroes = << >> /\ rank_tier = None
    /\ char_win_rates = Empty /\ wr_results = Empty /\ syn_results = Empty
    /\ batch = Empty /\ done = {}
    /\ NoSession /\ NoCollection /\ NoLimiter

Init ==
    /\ call = [fn |-> "none"]
    /\ baseline = "average"
    /\ match_participants \in Logs(MaxRows)
    /\ min_games_per_rank \in MinGamesRankArgs
    /\ min_games_overall \in MinGamesOverallArgs
    /\ min_games_together \in MinGamesTogetherArgs
    /\ alpha \in AlphaArgs
    /\ character_stats = {} /\ synergy_stats = {}
    /\ pc = "idle" /\ heroes = << >> /\ rank_tier = None
    /\ char_win_rates = Empty /\ wr_results = Empty /\ syn_results = Empty
    /\ batch = Empty /\ done = {}
    /\ NoSession /\ NoCollection /\ NoLimiter

Next ==
    \/ StartWinRate \/ AnalyzeCharacter \/ FinishWinRate
    \/ StartSynergy \/ AnalyzeHero \/ FinishSynergy

Spec == Init /\ [][Next]_vars

(***************************************************************************)
(* SpecScript: scripts/analyze_synergies.py. main() parses --baseline and   *)
(* calls analyze_teammate_synergies(conn, min_games_together, rank_tier,   *)
(* alpha); the analyses run as under Spec, with the script's defaults.     *)
(***************************************************************************)
BaselineArgs == { "average", "additive" }   \* parse_args: choices of --baseline

InitScript ==
    /\ call = [fn |-> "none"]
    /\ baseline \in BaselineArgs
    /\ match_participants \in Logs(MaxRows)
    /\ min_games_per_rank = 2
    /\ min_games_overall = 1
    /\ min_games_together = 1
    /\ alpha \in AlphaArgs
    /\ character_stats = {} /\ synergy_stats = {}
    /\ pc = "idle" /\ heroes = << >> /\ rank_tier = None
    /\ char_win_rates = Empty /\ wr_results = Empty /\ syn_results = Empty
    /\ batch = Empty /\ done = {}
    /\ NoSession /\ NoCollection /\ NoLimiter

SpecScript == InitScript /\ [][Next]_vars

(***************************************************************************)
(* SpecSeeded: the estimators over a database whose character_stats was    *)
(* filled beforehand for every hero, whatever the match log holds (the     *)
(* integration tests insert the overall rows directly).                    *)
(***************************************************************************)
SeededStats ==
    { [ hero_name   |-> h,
        rank_tier   |-> None,
        total_games |-> 2,
        wins        |-> 1,
        losses      |-> 1,
        win_rate    |-> 5000,
        confidence_interval_lower |-> wilson_confidence_interval(1, 2)[1],
        confidence_interval_upper |-> wilson_confidence_interval(1, 2)[2] ] :
      h \in Heroes }

InitSeeded ==
    /\ call = [fn |-> "none"]
    /\ baseline = "average"
    /\ match_participants \in Logs(MaxRows - 1)
    /\ min_games_per_rank = 2
    /\ min_games_overall = 1
    /\ min_games_together = 1
    /\ alpha \in AlphaArgs
    /\ character_stats = SeededStats /\ synergy_stats = {}
    /\ pc = "idle" /\ heroes = << >> /\ rank_tier = None
    /\ char_win_rates = Empty /\ wr_results = Empty /\ syn_results = Empty
    /\ batch = Empty /\ done = {}
    /\ NoSession /\ NoCollection /\ NoLimiter

SpecSeeded == InitSeeded /\ [][Next]_vars

(***************************************************************************)
(* SpecCrash: the two estimators statement by statement. Each upsert is a  *)
(* step on the connection's open transaction, conn.commit() a step of its  *)
(* own; the process may die at any point of a hero's turn, and an upsert   *)
(* may raise. The connection is psycopg2's default, without autocommit.    *)
(***************************************************************************)
RECURSIVE SeqOf(_)
\* The elements of S in some order (dict iteration order).
SeqOf(S) ==
    IF S = {} THEN << >>
    ELSE LET x == CHOOSE y \in S : TRUE IN << x >> \o SeqOf(S \ {x})

\* A faulty variant of after_execute: every statement is committed at once.
after_execute_autocommit(durable, view) == view

\* The committed rows after cursor.execute of an upsert on a connection
\* without autocommit: as they were.
after_execute(durable, view) == durable

\* The upserts of a hero's turn in analyze_character_win_rates: the retained
\* ranks, then the overall record; and the hero's result entry.
CharacterTurn(rows, hero) ==
    LET matches  == winrate_query_hero_matches(rows, hero)
        by_rank  == group_matches_by_rank(matches)
        retained == { rank \in DOMAIN by_rank :
                        RankPasses(by_rank[rank].wins + by_rank[rank].losses,
                                   min_games_per_rank) }
        rank_stats == [ rank \in retained |->
                          calculate_win_rate_stats(
                              by_rank[rank].wins,
                              by_rank[rank].wins + by_rank[rank].losses) ]
        overall_stats == OverallStats(by_rank, retained)
        ranks == SeqOf(retained)
    IN  [ hero   |-> hero,
          writes |-> [ i \in 1..Len(ranks) |->
                         [ rank_tier |-> ranks[i], stats |-> rank_stats[ranks[i]] ] ]
                     \o << [ rank_tier |-> None, stats |-> overall_stats ] >>,
          entry  |-> [ hero |-> hero, overall |-> overall_stats,
                       by_rank |-> rank_stats ] ]

\* analyze_character_win_rates: the call up to its loop.
BeginWinRate ==
    /\ pc = "idle" /\ ended = NoEnd
    /\ pc' = "winrate"
    /\ heroes' = get_all_heroes(match_participants)
    /\ wr_results' = Empty
    /\ done' = done \ {"winrate"}
    /\ run_start' = << durable_character_stats, durable_synergy_stats >>
    /\ committed' = << >>
    /\ UNCHANGED << collection, limiter >>
    /\ UNCHANGED << call, baseline, match_participants, min_games_per_rank,
                    min_games_overall, min_games_together, alpha, character_stats,
                    synergy_stats, rank_tier, char_win_rates, syn_results, batch,
                    durable_character_stats, durable_synergy_stats, txn, ended >>

\* A turn of "for hero in heroes" up to its first upsert: the query, the
\* threshold ("continue" for a hero below it) and the statistics.
PrepareCharacter ==
    /\ pc = "winrate" /\ heroes # << >> /\ txn = NoTxn
    /\ LET hero    == Head(heroes)
           matches == winrate_query_hero_matches(match_participants, hero)
       IN  IF ~HeroPasses(Cardinality(matches), min_games_overall)
           THEN /\ heroes' = Tail(heroes)
                /\ txn' = NoTxn
           ELSE /\ heroes' = heroes
                /\ txn' = << CharacterTurn(match_participants, hero) >>
    /\ UNCHANGED << collection, limiter >>
    /\ UNCHANGED << call, baseline, match_participants, min_games_per_rank,
                    min_games_overall, min_games_together, alpha, character_stats,
                    synergy_stats, pc, rank_tier, char_win_rates, wr_results,
                    syn_results, batch, done, durable_character_stats,
                    durable_synergy_stats, run_start, committed, ended >>

\* One cache_character_stats call of the hero's turn.
UpsertCharacter ==
    /\ pc = "winrate" /\ txn # NoTxn /\ txn[1].writes # << >>
    /\ LET write == Head(txn[1].writes)
       IN  /\ character_stats' = cache_character_stats(character_stats, txn[1].hero,
                                                       write.rank_tier, write.stats)
           /\ durable_character_stats' =
                  after_execute(durable_character_stats, character_stats')
           /\ txn' = << [ txn[1] EXCEPT !.writes = Tail(@) ] >>
    /\ UNCHANGED << collection, limiter >>
    /\ UNCHANGED << call, baseline, match_participants, min_games_per_rank,
                    min_games_overall, min_games_together, alpha, synergy_stats, pc,
                    heroes, rank_tier, char_win_rates, wr_results, syn_results,
                    batch, done, durable_synergy_stats, run_start, committed, ended >>

\* conn.commit() and results[hero] = ... at the end of the hero's turn.
CommitCharacter ==
    /\ pc = "winrate" /\ txn # NoTxn /\ txn[1].writes = << >>
    /\ durable_character_stats' = character_stats
    /\ durable_synergy_stats' = synergy_stats
    /\ wr_results' = (txn[1].hero :> txn[1].entry) @@ wr_results
    /\ committed' = Append(committed, txn[1].hero)
    /\ heroes' = Tail(heroes)
    /\ txn' = NoTxn
    /\ UNCHANGED << collection, limiter >>
    /\ UNCHANGED << call, baseline, match_participants, min_games_per_rank,
                    min_games_overall, min_games_together, alpha, character_stats,
                    synergy_stats, pc, rank_tier, char_win_rates, syn_results,
                    batch, done, run_start, ended >>

\* analyze_character_win_rates: the return of results.
EndWinRate ==
    /\ pc = "winrate" /\ heroes = << >> /\ txn = NoTxn
    /\ pc' = "idle"
    /\ done' = done \cup {"winrate"}
    /\ UNCHANGED << collection, limiter >>
    /\ UNCHANGED << call, baseline, match_participants, min_games_per_rank,
                    min_games_overall, min_games_together, alpha, character_stats,
                    synergy_stats, heroes, rank_tier, char_win_rates, wr_results,
                    syn_results, batch, session >>

\* The upserts of a hero's turn in analyze_teammate_synergies: one per record
\* of the sorted synergies list; and the hero's result entry.
HeroTurn(rows, hero, order) ==
    LET synergies == HeroSynergies(rows, hero, char_win_rates, min_games_together,
                                   alpha, order)
        max_games == MaxGamesTogether(rows, hero, min_games_together)
    IN  [ hero   |-> hero,
          writes |-> synergies,
          full   |-> synergies,
          entry  |-> [ hero      |-> hero,
                       rank_tier |-> IF rank_tier # None THEN rank_tier ELSE "all",
                       synergies |-> SubSeq(synergies, 1,
                                            Min(TOP_N_SYNERGIES, Len(synergies))),
                       power_analysis |-> IF max_games > 0
                                          THEN calculate_power_analysis(max_games)
                                          ELSE NoBlock ] ]

\* analyze_teammate_synergies: the call up to its loop; without cached win
\* rates it returns {} at once.
BeginSynergy ==
    /\ pc = "idle" /\ ended = NoEnd
    /\ \E tier \in RankTierArgs :
         LET rates == load_character_win_rates(character_stats)
         IN  /\ rank_tier' = tier
             /\ char_win_rates' = rates
             /\ syn_results' = Empty
             /\ batch' = Empty
             /\ IF DOMAIN rates = {}
                THEN /\ pc' = "idle"
                     /\ heroes' = << >>
                     /\ done' = done \cup {"synergy"}
                ELSE /\ pc' = "synergy"
                     /\ heroes' = SortedSeq(DOMAIN rates)
                     /\ done' = done \ {"synergy"}
    /\ run_start' = << durable_character_stats, durable_synergy_stats >>
    /\ committed' = << >>
    /\ UNCHANGED << collection, limiter >>
    /\ UNCHANGED << call, baseline, match_participants, min_games_per_rank,
                    min_games_overall, min_games_together, alpha, character_stats,
                    synergy_stats, wr_results, durable_character_stats,
                    durable_synergy_stats, txn, ended >>

\* A turn of "for hero in heroes" up to its first upsert: the queries
\* ("continue" for a hero without matches), the statistics, the correction
\* and the sort.
PrepareHero ==
    /\ pc = "synergy" /\ heroes # << >> /\ txn = NoTxn
    /\ LET hero == Head(heroes)
       IN  IF synergy_query_hero_matches(match_participants, hero) = {}
           THEN /\ heroes' = Tail(heroes)
                /\ txn' = NoTxn
           ELSE /\ heroes' = heroes
                /\ \E order \in TeammateOrders(match_participants, hero) :
                     txn' = << HeroTurn(match_participants, hero, order) >>
    /\ UNCHANGED << collection, limiter >>
    /\ UNCHANGED << call, baseline, match_participants, min_games_per_rank,
                    min_games_overall, min_games_together, alpha, character_stats,
                    synergy_stats, pc, rank_tier, char_win_rates, wr_results,
                    syn_results, batch, done, durable_character_stats,
                    durable_synergy_stats, run_start, committed, ended >>

\* One cache_synergy_stats call of the hero's turn.
UpsertSynergy ==
    /\ pc = "synergy" /\ txn # NoTxn /\ txn[1].writes # << >>
    /\ LET synergy == Head(txn[1].writes)
       IN  /\ synergy_stats' = cache_synergy_stats(synergy_stats, txn[1].hero,
                                                   synergy.teammate, rank_tier,
                                                   synergy, "average")
           /\ durable_synergy_stats' = after_execute(durable_synergy_stats, synergy_stats')
           /\ txn' = << [ txn[1] EXCEPT !.writes = Tail(@) ] >>
    /\ UNCHANGED << collection, limiter >>
    /\ UNCHANGED << call, baseline, match_participants, min_games_per_rank,
                    min_games_overall, min_games_together, alpha, character_stats,
                    pc, heroes, rank_tier, char_win_rates, wr_results, syn_results,
                    batch, done, durable_character_stats, run_start, committed,
                    ended >>

\* conn.commit() and results[hero] = ... at the end of the hero's turn.
CommitHero ==
    /\ pc = "synergy" /\ txn # NoTxn /\ txn[1].writes = << >>
    /\ durable_character_stats' = character_stats
    /\ durable_synergy_stats' = synergy_stats
    /\ syn_results' = (txn[1].hero :> txn[1].entry) @@ syn_results
    /\ batch' = (txn[1].hero :> txn[1].full) @@ batch
    /\ committed' = Append(committed, txn[1].hero)
    /\ heroes' = Tail(heroes)
    /\ txn' = NoTxn
    /\ UNCHANGED << collection, limiter >>
    /\ UNCHANGED << call, baseline, match_participants, min_games_per_rank,
                    min_games_overall, min_games_together, alpha, character_stats,
                    synergy_stats, pc, rank_tier, char_win_rates, wr_results, done,
                    run_start, ended >>

\* analyze_teammate_synergies: the return of results.
EndSynergy ==
    /\ pc = "synergy" /\ heroes = << >> /\ txn = NoTxn
    /\ pc' = "idle"
    /\ done' = done \cup {"synergy"}
    /\ UNCHANGED << collection, limiter >>
    /\ UNCHANGED << call, baseline, match_participants, min_games_per_rank,
                    min_games_overall, min_games_together, alpha, character_stats,
                    synergy_stats, heroes, rank_tier, char_win_rates, wr_results,
                    syn_results, batch, session >>

\* The run ends at once, its results never returned; the server rolls the
\* open transaction back, so the tables are their committed rows.
Stopped(kind) ==
    /\ ended' = << [ kind |-> kind, run |-> pc, hero |-> txn[1].hero,
                     left |-> Len(txn[1].writes), rest |-> Tail(heroes) ] >>
    /\ pc' = "stopped"
    /\ character_stats' = durable_character_stats
    /\ synergy_stats' = durable_synergy_stats
    /\ txn' = NoTxn
    /\ UNCHANGED << collection, limiter >>
    /\ UNCHANGED << call, baseline, match_participants, min_games_per_rank,
                    min_games_overall, min_games_together, alpha, heroes, rank_tier,
                    char_win_rates, wr_results, syn_results, batch, done,
                    durable_character_stats, durable_synergy_stats, run_start,
                    committed >>

\* The process dies during a hero's turn, before its commit.
Crash ==
    /\ pc \in { "winrate", "synergy" } /\ txn # NoTxn
    /\ Stopped("crash")

\* cache_character_stats raises (a psycopg2 error): neither it nor the loop
\* of analyze_character_win_rates catches, so the exception leaves the run.
UpsertCharacterRaises ==
    /\ pc = "winrate" /\ txn # NoTxn /\ txn[1].writes # << >>
    /\ Stopped("error")

\* cache_synergy_stats raises: the exception leaves analyze_teammate_synergies.
UpsertSynergyRaises ==
    /\ pc = "synergy" /\ txn # NoTxn /\ txn[1].writes # << >>
    /\ Stopped("error")

InitCrash ==
    /\ call = [fn |-> "none"]
    /\ baseline = "average"
    /\ match_participants \in Logs(MaxRows - 1)
    /\ min_games_per_rank = 1
    /\ min_games_overall = 1
    /\ min_games_together = 1
    /\ alpha \in AlphaArgs
    /\ character_stats = {} /\ synergy_stats = {}
    /\ pc = "idle" /\ heroes = << >> /\ rank_tier = None
    /\ char_win_rates = Empty /\ wr_results = Empty /\ syn_results = Empty
    /\ batch = Empty /\ done = {}
    /\ NoSession /\ NoCollection /\ NoLimiter

NextCrash ==
    \/ BeginWinRate \/ PrepareCharacter \/ UpsertCharacter \/ CommitCharacter
    \/ EndWinRate
    \/ BeginSynergy \/ PrepareHero \/ UpsertSynergy \/ CommitHero \/ EndSynergy
    \/ Crash \/ UpsertCharacterRaises \/ UpsertSynergyRaises

SpecCrash == InitCrash /\ [][NextCrash]_vars

(***************************************************************************)
(* SpecMain: the two command-line scripts, scripts/analyze_characters.py   *)
(* and scripts/analyze_synergies.py, run one after the other any number of *)
(* times. call is the invocation under way: the script, its parsed         *)
(* arguments, whether main() is still running, and once it is over its     *)
(* exit status and the last message it logged.                             *)
(***************************************************************************)
ALPHA_MIN == 1000       \* validate_args: 0.001 <= args.alpha
ALPHA_MAX == 100000     \* validate_args: args.alpha <= 0.10

AlphaFlags == { 500, 50001, 100001 }    \* --alpha 0.0005, 0.050001, 0.100001
MinSampleSizeFlags == { 0, 1 }          \* --min-sample-size
MinGamesPerRankFlags == { 0, 1 }        \* --min-games-per-rank
MinGamesOverallFlags == { 0, 1 }        \* --min-games-overall

\* validate_args(args): FALSE where it raises ValueError (--min-games, the
\* deprecated flag, not given).
validate_args(args) ==
    /\ ALPHA_MIN <= args.alpha /\ args.alpha <= ALPHA_MAX
    /\ ~(args.min_sample_size < 1)

\* No script is running.
ScriptIdle == IF call.fn = "none" THEN TRUE ELSE call.stage = "exited"

\* main() of script fn is between its argument handling and its exit.
Running(fn) == call.fn = fn /\ call.stage = "started"

\* The end of main(): the process exits with status and message.
Exited(status, message) ==
    call' = [call EXCEPT !.stage = "exited", !.exit = status, !.report = message]

\* analyze_characters.main up to "try:": parse_args, no check of the values.
InvokeCharacters ==
    /\ ScriptIdle /\ pc = "idle"
    /\ \E per_rank \in MinGamesPerRankFlags, overall \in MinGamesOverallFlags :
         /\ call' = [ fn |-> "analyze_characters", stage |-> "started",
                      args |-> [ min_games_per_rank |-> per_rank,
                                 min_games_overall  |-> overall ],
                      exit |-> -1, report |-> "Character Win Rate Analysis" ]
         /\ min_games_per_rank' = per_rank
         /\ min_games_overall' = overall
    /\ done' = {}
    /\ UNCHANGED << baseline, match_participants, min_games_together, alpha,
                    character_stats, synergy_stats, pc, heroes, rank_tier,
                    char_win_rates, wr_results, syn_results, batch >>
    /\ UNCHANGED << session, collection, limiter >>

CharactersStart == Running("analyze_characters") /\ "winrate" \notin done /\ StartWinRate
CharactersTurn == Running("analyze_characters") /\ AnalyzeCharacter
CharactersReturn == Running("analyze_characters") /\ FinishWinRate

\* analyze_characters.main after analyze_character_win_rates returned: the
\* warning and "return" on empty results, the summary otherwise; both leave
\* main() normally.
ExitCharacters ==
    /\ Running("analyze_characters") /\ pc = "idle" /\ "winrate" \in done
    /\ Exited(0, IF DOMAIN wr_results = {}
                 THEN "No heroes met minimum sample size requirements"
                 ELSE "Analysis complete!")
    /\ UNCHANGED << pipeline, session, collection, limiter >>

\* analyze_characters.main: "except Exception", whatever raised in the try
\* block (get_connection, a query, the export).
CharactersRaise ==
    /\ Running("analyze_characters")
    /\ Exited(1, "Analysis failed")
    /\ pc' = "idle" /\ heroes' = << >>
    /\ UNCHANGED << baseline, match_participants, min_games_per_rank, min_games_overall,
                    min_games_together, alpha, character_stats, synergy_stats,
                    rank_tier, char_win_rates, wr_results, syn_results, batch, done >>
    /\ UNCHANGED << session, collection, limiter >>

\* analyze_synergies.main up to its second "try:": parse_args, validate_args
\* and sys.exit(1) on its ValueError.
InvokeSynergies ==
    /\ ScriptIdle /\ pc = "idle"
    /\ \E a \in AlphaFlags, size \in MinSampleSizeFlags :
         LET args == [ alpha |-> a, min_sample_size |-> size ]
         IN  IF validate_args(args)
             THEN /\ call' = [ fn |-> "analyze_synergies", stage |-> "started",
                               args |-> args, exit |-> -1,
                               report |-> "Marvel Rivals - Teammate Synergy Analysis" ]
                  /\ alpha' = a
                  /\ min_games_together' = size
                  /\ done' = {}
             ELSE /\ call' = [ fn |-> "analyze_synergies", stage |-> "exited",
                               args |-> args, exit |-> 1,
                               report |-> "Invalid arguments" ]
                  /\ UNCHANGED << alpha, min_games_together, done >>
    /\ UNCHANGED << baseline, match_participants, min_games_per_rank, min_games_overall,
                    character_stats, synergy_stats, pc, heroes, rank_tier,
                    char_win_rates, wr_results, syn_results, batch >>
    /\ UNCHANGED << session, collection, limiter >>

SynergiesStart == Running("analyze_synergies") /\ "synergy" \notin done /\ StartSynergy
SynergiesTurn == Running("analyze_synergies") /\ AnalyzeHero
SynergiesReturn == Running("analyze_synergies") /\ FinishSynergy

\* analyze_synergies.main after analyze_teammate_synergies returned:
\* "if not results:" logs an error and calls sys.exit(1) (SystemExit is no
\* Exception, the except clause lets it through); otherwise the summary.
ExitSynergies ==
    /\ Running("analyze_synergies") /\ pc = "idle" /\ "synergy" \in done
    /\ IF DOMAIN syn_results = {}
       THEN Exited(1, "No synergies found")
       ELSE Exited(0, "Analysis complete!")
    /\ UNCHANGED << pipeline, session, collection, limiter >>

\* analyze_synergies.main: "except Exception", whatever raised in the try block.
SynergiesRaise ==
    /\ Running("analyze_synergies")
    /\ Exited(1, "Error during synergy analysis")
    /\ pc' = "idle" /\ heroes' = << >>
    /\ UNCHANGED << baseline, match_participants, min_games_per_rank, min_games_overall,
                    min_games_together, alpha, character_stats, synergy_stats,
                    rank_tier, char_win_rates, wr_results, syn_results, batch, done >>
    /\ UNCHANGED << session, collection, limiter >>

InitMain ==
    /\ call = [fn |-> "none"]
    /\ baseline = "average"
    /\ match_participants \in Logs(MaxRows - 3)
    /\ min_games_per_rank = 1
    /\ min_games_overall = 1
    /\ min_games_together = 1
    /\ alpha = 50001
    /\ character_stats = {} /\ synergy_stats = {}
    /\ pc = "idle" /\ heroes = << >> /\ rank_tier = None
    /\ char_win_rates = Empty /\ wr_results = Empty /\ syn_results = Empty
    /\ batch = Empty /\ done = {}
    /\ NoSession /\ NoCollection /\ NoLimiter

NextMain ==
    \/ InvokeCharacters \/ CharactersStart \/ CharactersTurn \/ CharactersReturn
    \/ ExitCharacters \/ CharactersRaise
    \/ InvokeSynergies \/ SynergiesStart \/ SynergiesTurn \/ SynergiesReturn
    \/ ExitSynergies \/ SynergiesRaise

SpecMain == InitMain /\ [][NextMain]_vars

\* The invocation's configuration is one the analyses cannot run with: alpha
\* outside [0.001, 0.10] or a sample threshold below 1.
InvalidConfig ==
    /\ call.fn # "none"
    /\ IF call.fn = "analyze_synergies"
       THEN \/ call.args.alpha < ALPHA_MIN \/ call.args.alpha > ALPHA_MAX
            \/ call.args.min_sample_size < 1
       ELSE \/ call.args.min_games_per_rank < 1
            \/ call.args.min_games_overall < 1

\* The invocation ended in the except clause of main().
Crashed ==
    /\ call.fn # "none" /\ call.stage = "exited"
    /\ call.report \in { "Analysis failed", "Error during synergy analysis" }

\* C21: a script invoked with alpha outside [0.001, 0.10] or with a
\* non-positive sample threshold is over at once with exit status 1 and the
\* argument error, no analysis having started (no match read, no statistic
\* computed, no record written under that invocation).
C21_ConfigErrorsFailFast ==
    InvalidConfig =>
        /\ call.stage = "exited"
        /\ call.exit = 1
        /\ call.report = "Invalid arguments"

\* C22: a run that ended without a crash and with a valid configuration is
\* reported as successful (exit status 0), empty result included; a crashed
\* run is reported as a failure (exit status other than 0).
C22_EmptyResultIsSuccess ==
    (call.fn # "none" /\ call.stage = "exited") =>
        /\ (~Crashed /\ ~InvalidConfig) => call.exit = 0
        /\ Crashed => call.exit # 0

(***************************************************************************)
(* SpecCollect: src/collectors/match_collector.py. collect_matches runs    *)
(* any number of times, one after the other, statement by statement: every *)
(* insert commits on its own, the API may fail, a database statement may   *)
(* raise, and the process may die between any two statements.              *)
(***************************************************************************)
CURRENT_SEASON == 1
MaxBatchSize == 2       \* the batch_size arguments are 1..MaxBatchSize
MaxFaults == 2          \* failures and interruptions of one behaviour

\* A match as the API returns it.
ApiMatch(id, mode) == [ match_id |-> id, mode |-> mode, season |-> CURRENT_SEASON ]

\* api_client.get_player_matches(username): player 1 and player 2 share match
\* 1, player 2 has a match of another mode, player 3 has no match.
History ==
    [ p \in CollectPlayers |->
        IF p = 1 THEN << ApiMatch(1, "competitive"), ApiMatch(2, "competitive") >>
        ELSE IF p = 2 THEN << ApiMatch(1, "competitive"), ApiMatch(3, "quickplay") >>
        ELSE << >> ]

\* match["teams"][..]["players"]: the usernames of a match.
Roster(id) == IF id = 1 THEN { 1, 2 } ELSE IF id = 2 THEN { 1, 3 } ELSE { 2, 3 }

\* fetch_player_matches(api_client, username): the history, [] on any error.
fetch_player_matches(username, api_ok) == IF api_ok THEN History[username] ELSE << >>

IsCompetitive(m) == m.mode = "competitive" /\ m.season = CURRENT_SEASON
\* filter_competitive_matches(matches, CURRENT_SEASON)
filter_competitive_matches(ms) == SelectSeq(ms, IsCompetitive)

\* A faulty variant of match_exists: the table is not looked at.
match_exists_never(table, match_id) == FALSE

\* match_exists(conn, match_id): SELECT 1 FROM matches WHERE match_id = %s.
match_exists(table, match_id) == \E i \in DOMAIN table : table[i] = match_id

\* insert_match(conn, match): INSERT ... ON CONFLICT (match_id) DO NOTHING and
\* commit; inserted is cursor.rowcount > 0.
insert_match(table, match) ==
    IF \E i \in DOMAIN table : table[i] = match.match_id
    THEN [ table |-> table, inserted |-> FALSE ]
    ELSE [ table |-> Append(table, match.match_id), inserted |-> TRUE ]

\* extract_participants(match_id, match): one row per player of the match.
extract_participants(match_id, match) == { << match_id, u >> : u \in Roster(match_id) }

\* insert_match_participants(conn, participants): INSERT ... ON CONFLICT
\* (match_id, username) DO NOTHING and commit; count is cursor.rowcount.
insert_match_participants(rows, participants) ==
    [ rows |-> rows \cup participants, count |-> Cardinality(participants \ rows) ]

\* get_pending_players(conn, batch_size): WHERE match_history_fetched = FALSE
\* ORDER BY discovered_at LIMIT batch_size.
get_pending_players(fetched, batch_size) ==
    LET pending == SortedSeq({ p \in DOMAIN fetched : ~fetched[p] })
    IN  SubSeq(pending, 1, Min(batch_size, Len(pending)))

\* mark_player_collected(conn, username): the UPDATE and its commit.
mark_player_collected(fetched, username) == [ fetched EXCEPT ![username] = TRUE ]

\* "stats = {...}" at the start of collect_matches.
NoStats ==
    [ players_processed |-> 0, matches_collected |-> 0, matches_skipped |-> 0,
      participants_inserted |-> 0, api_errors |-> 0 ]

\* A run of collect_matches is between two of its statements.
Collecting == IF collect = NoRun THEN FALSE
              ELSE collect.pc \in { "player", "match", "participants" }

\* A failure or an interruption may still happen.
MayFail == faults < MaxFaults

\* collect_matches up to its loop: stats, get_pending_players and the return
\* of stats when no player is pending.
StartCollect ==
    /\ ~Collecting
    /\ \E batch_size \in 1..MaxBatchSize :
         LET pending_players == get_pending_players(match_history_fetched, batch_size)
         IN  collect' = [ pc |-> IF pending_players = << >> THEN "returned" ELSE "player",
                          batch_size |-> batch_size,
                          pending |-> pending_players,
                          todo |-> << >>,
                          stats |-> NoStats,
                          collected_ids |-> {} ]
    /\ UNCHANGED << match_history_fetched, matches_table, participant_rows, faults >>
    /\ UNCHANGED << call, pipeline, session, limiter >>

\* The turn of a player after fetch_player_matches returned matches: "if not
\* matches" marks the player collected and counts an API error; otherwise the
\* competitive matches are the turn's work.
AfterFetch(fetched_matches) ==
    LET username == Head(collect.pending)
    IN  IF fetched_matches = << >>
        THEN /\ match_history_fetched' =
                    mark_player_collected(match_history_fetched, username)
             /\ collect' = [ collect EXCEPT
                               !.pending = Tail(@),
                               !.stats.players_processed = @ + 1,
                               !.stats.api_errors = @ + 1 ]
        ELSE /\ collect' = [ collect EXCEPT
                               !.pc = "match",
                               !.todo = filter_competitive_matches(fetched_matches) ]
             /\ UNCHANGED match_history_fetched

\* The next player of the loop, the API answering.
FetchPlayer ==
    /\ Collecting /\ collect.pc = "player" /\ collect.pending # << >>
    /\ AfterFetch(fetch_player_matches(Head(collect.pending), TRUE))
    /\ UNCHANGED << matches_table, participant_rows, faults >>
    /\ UNCHANGED << call, pipeline, session, limiter >>

\* The next player of the loop, the API failing: fetch_player_matches logs the
\* error and returns [].
FetchPlayerFails ==
    /\ Collecting /\ collect.pc = "player" /\ collect.pending # << >>
    /\ MayFail /\ faults' = faults + 1
    /\ AfterFetch(fetch_player_matches(Head(collect.pending), FALSE))
    /\ UNCHANGED << matches_table, participant_rows >>
    /\ UNCHANGED << call, pipeline, session, limiter >>

\* The next match of the player: match_exists, then insert_match with its
\* commit; "continue" for a match that exists or was not inserted.
StoreMatch ==
    /\ Collecting /\ collect.pc = "match" /\ collect.todo # << >>
    /\ LET match == Head(collect.todo)
       IN  IF match_exists(matches_table, match.match_id)
           THEN /\ collect' = [ collect EXCEPT !.todo = Tail(@),
                                               !.stats.matches_skipped = @ + 1 ]
                /\ UNCHANGED matches_table
           ELSE LET r == insert_match(matches_table, match)
                IN  /\ matches_table' = r.table
                    /\ collect' = IF r.inserted
                                  THEN [ collect EXCEPT !.pc = "participants" ]
                                  ELSE [ collect EXCEPT !.todo = Tail(@) ]
    /\ UNCHANGED << match_history_fetched, participant_rows, faults >>
    /\ UNCHANGED << call, pipeline, session, limiter >>

\* insert_match raising: rollback, return False, "continue".
InsertMatchFails ==
    /\ Collecting /\ collect.pc = "match" /\ collect.todo # << >>
    /\ ~match_exists(matches_table, Head(collect.todo).match_id)
    /\ MayFail /\ faults' = faults + 1
    /\ collect' = [ collect EXCEPT !.todo = Tail(@) ]
    /\ UNCHANGED << match_history_fetched, matches_table, participant_rows >>
    /\ UNCHANGED << call, pipeline, session, limiter >>

\* The counters after insert_match_participants returned participants_count.
AfterParticipants(participants_count) ==
    collect' = [ collect EXCEPT
                   !.pc = "match",
                   !.todo = Tail(@),
                   !.stats.participants_inserted = @ + participants_count,
                   !.stats.matches_collected = @ + 1,
                   !.collected_ids = @ \cup { Head(collect.todo).match_id } ]

\* extract_participants and insert_match_participants with its commit.
StoreParticipants ==
    /\ Collecting /\ collect.pc = "participants"
    /\ LET match == Head(collect.todo)
           r == insert_match_participants(
                    participant_rows, extract_participants(match.match_id, match))
       IN  /\ participant_rows' = r.rows
           /\ AfterParticipants(r.count)
    /\ UNCHANGED << match_history_fetched, matches_table, faults >>
    /\ UNCHANGED << call, pipeline, session, limiter >>

\* insert_match_participants raising: rollback, return 0.
ParticipantsFail ==
    /\ Collecting /\ collect.pc = "participants"
    /\ MayFail /\ faults' = faults + 1
    /\ AfterParticipants(0)
    /\ UNCHANGED << match_history_fetched, matches_table, participant_rows >>
    /\ UNCHANGED << call, pipeline, session, limiter >>

\* The end of the player's turn: mark_player_collected with its commit.
MarkPlayer ==
    /\ Collecting /\ collect.pc = "match" /\ collect.todo = << >>
    /\ match_history_fetched' =
           mark_player_collected(match_history_fetched, Head(collect.pending))
    /\ collect' = [ collect EXCEPT !.pc = "player",
                                   !.pending = Tail(@),
                                   !.stats.players_processed = @ + 1 ]
    /\ UNCHANGED << matches_table, participant_rows, faults >>
    /\ UNCHANGED << call, pipeline, session, limiter >>

\* "except Exception" of the player's turn (match_exists, extract_participants
\* or mark_player_collected raising): the player is not marked.
PlayerRaises ==
    /\ Collecting /\ collect.pc \in { "match", "participants" }
    /\ MayFail /\ faults' = faults + 1
    /\ collect' = [ collect EXCEPT !.pc = "player",
                                   !.pending = Tail(@),
                                   !.todo = << >>,
                                   !.stats.api_errors = @ + 1 ]
    /\ UNCHANGED << match_history_fetched, matches_table, participant_rows >>
    /\ UNCHANGED << call, pipeline, session, limiter >>

\* After the loop: update_collection_metadata and "return stats".
FinishCollect ==
    /\ Collecting /\ collect.pc = "player" /\ collect.pending = << >>
    /\ collect' = [ collect EXCEPT !.pc = "returned" ]
    /\ UNCHANGED << match_history_fetched, matches_table, participant_rows, faults >>
    /\ UNCHANGED << call, pipeline, session, limiter >>

\* The process dies between two statements; what was committed stays.
Interrupt ==
    /\ Collecting
    /\ MayFail /\ faults' = faults + 1
    /\ collect' = [ collect EXCEPT !.pc = "interrupted" ]
    /\ UNCHANGED << match_history_fetched, matches_table, participant_rows >>
    /\ UNCHANGED << call, pipeline, session, limiter >>

InitCollect == call = [fn |-> "none"] /\ NoPipeline

\* The statements of collect_matches when nothing fails.
CollectStep ==
    \/ StartCollect \/ FetchPlayer \/ StoreMatch \/ StoreParticipants
    \/ MarkPlayer \/ FinishCollect

NextCollect ==
    \/ StartCollect \/ FetchPlayer \/ FetchPlayerFails \/ StoreMatch
    \/ InsertMatchFails \/ StoreParticipants \/ ParticipantsFail \/ MarkPlayer
    \/ PlayerRaises \/ FinishCollect \/ Interrupt

SpecCollect == InitCollect /\ [][NextCollect]_vars

\* SpecCollectLive: the operator keeps running collect_matches and a running
\* process keeps taking its next statement; the failures are finitely many.
SpecCollectLive == SpecCollect /\ WF_vars(CollectStep)

(***************************************************************************)
(* SpecLimiter: src/api/rate_limiter.py. The threads of one process call   *)
(* wait_if_needed of one RateLimiter; the clock advances between any two   *)
(* statements, and time.sleep returns no sooner than asked.                *)
(***************************************************************************)
MaxClock == 14          \* the clock stops here
MaxCalls == 3           \* calls of wait_if_needed in one behaviour

\* RateLimiter.__init__: self.min_delay = 60.0 / requests_per_minute.
min_delay == Minute \div RequestsPerMinute

\* A faulty variant of sleep_time: one tick short.
sleep_time_short(elapsed) == min_delay - elapsed - 1

\* "sleep_time = self.min_delay - elapsed"
sleep_time(elapsed) == min_delay - elapsed

\* The calls begun so far.
Begun == Len(returned) + Cardinality({ t \in Threads : threads[t].pc # "idle" })

\* "with self.lock:" entered, then current_time, elapsed and the test of
\* "if elapsed < self.min_delay".
Acquire(t) ==
    /\ threads[t].pc = "idle" /\ lock = 0 /\ Begun < MaxCalls
    /\ lock' = t
    /\ LET current_time == clock
           elapsed == current_time - last_request_time
       IN  threads' = [ threads EXCEPT ![t] =
                          IF elapsed < min_delay
                          THEN [ pc |-> "sleeping",
                                 wake |-> current_time + sleep_time(elapsed) ]
                          ELSE [ pc |-> "stamping", wake |-> 0 ] ]
    /\ UNCHANGED << clock, last_request_time, stamped, returned >>
    /\ UNCHANGED << call, pipeline, session, collection >>

\* time.sleep(sleep_time) returns, at or after the time asked for.
Wake(t) ==
    /\ threads[t].pc = "sleeping" /\ clock >= threads[t].wake
    /\ threads' = [ threads EXCEPT ![t].pc = "stamping" ]
    /\ UNCHANGED << clock, last_request_time, lock, stamped, returned >>
    /\ UNCHANGED << call, pipeline, session, collection >>

\* "self.last_request_time = time.time()"
Stamp(t) ==
    /\ threads[t].pc = "stamping"
    /\ last_request_time' = clock
    /\ stamped' = Append(stamped, [ thread |-> t, time |-> clock ])
    /\ threads' = [ threads EXCEPT ![t].pc = "leaving" ]
    /\ UNCHANGED << clock, lock, returned >>
    /\ UNCHANGED << call, pipeline, session, collection >>

\* The end of the with block and the return to the caller.
Leave(t) ==
    /\ threads[t].pc = "leaving"
    /\ lock' = 0
    /\ returned' = Append(returned, [ thread |-> t, time |-> clock ])
    /\ threads' = [ threads EXCEPT ![t] = [ pc |-> "idle", wake |-> 0 ] ]
    /\ UNCHANGED << clock, last_request_time, stamped >>
    /\ UNCHANGED << call, pipeline, session, collection >>

\* Time passes.
Tick ==
    /\ clock < MaxClock
    /\ clock' = clock + 1
    /\ UNCHANGED << last_request_time, lock, threads, stamped, returned >>
    /\ UNCHANGED << call, pipeline, session, collection >>

InitLimiter == call = [fn |-> "none"] /\ NoPipeline

NextLimiter ==
    \/ \E t \in Threads : Acquire(t)
    \/ \E t \in Threads : Wake(t)
    \/ \E t \in Threads : Stamp(t)
    \/ \E t \in Threads : Leave(t)
    \/ Tick

SpecLimiter == InitLimiter /\ [][NextLimiter]_vars

\* Consecutive entries of a log of times are at least min_delay apart, and no
\* window of one minute [start, start + Minute) holds more than
\* RequestsPerMinute of them.
Spaced(log) ==
    /\ \A i \in DOMAIN log :
         i + 1 \in DOMAIN log => log[i + 1].time - log[i].time >= min_delay
    /\ \A start \in 0..MaxClock :
         Cardinality({ i \in DOMAIN log :
                         start <= log[i].time /\ log[i].time < start + Minute })
           <= RequestsPerMinute

\* C30 as stated: any two consecutive returns of wait_if_needed are at least
\* 60/N seconds apart, and no more than N calls return in any one minute.
C30_ReturnsSpaced == Spaced(returned)

\* C30, amended: the times any two consecutive calls record in
\* last_request_time are at least 60/N seconds apart, no more than N are
\* recorded in any one minute, and a call returns at or after the time it
\* recorded, in the order of the recordings.
C30_StampsSpaced ==
    /\ Spaced(stamped)
    /\ \A i \in DOMAIN returned :
         /\ returned[i].thread = stamped[i].thread
         /\ returned[i].time >= stamped[i].time

\* Two threads returned one after the other less than min_delay apart, the
\* second having slept: the first was late leaving.
C30_Witness ==
    /\ Len(returned) >= 2
    /\ returned[1].thread # returned[2].thread
    /\ stamped[2].time = stamped[1].time + min_delay
    /\ returned[2].time - returned[1].time < min_delay

(***************************************************************************)
(* SpecStats: the statistics functions applied to inputs of bounded sets.  *)
(***************************************************************************)
AlphaSamples == { 10000, 50000, 100000 }            \* 0.01, 0.05, 0.10
PValueSamples == { 0, 3333, 10000, 16666, 16667, 33333, 50000, 1000000 }
WinRateSamples == { 3333, 5000, 5200, 5500 }

InitStats == call = [fn |-> "none"] /\ NoPipeline

CallBonferroni ==
    /\ call.fn = "none"
    /\ UNCHANGED << pipeline, session, collection, limiter >>
    /\ \E n \in 0..MaxBatch, a \in AlphaSamples :
      \E ps \in [1..n -> PValueSamples] :
        LET synergies == [i \in 1..n |-> [p_value |-> ps[i]]]
        IN  call' = [ fn |-> "bonferroni_correction", synergies |-> synergies,
                      alpha |-> a, result |-> bonferroni_correction(synergies, a) ]

CallSynergyRates ==
    /\ call.fn = "none"
    /\ UNCHANGED << pipeline, session, collection, limiter >>
    /\ \E games \in 1..MaxGames, hero_wr \in WinRateSamples, teammate_wr \in WinRateSamples :
      \E wins \in 0..games :
        LET stats == [games |-> games, wins |-> wins]
        IN  call' = [ fn |-> "synergy_rates", stats |-> stats, hero_wr |-> hero_wr,
                      teammate_wr |-> teammate_wr,
                      result |-> synergy_rates(stats, hero_wr, teammate_wr) ]

CallWilson ==
    /\ call.fn = "none"
    /\ UNCHANGED << pipeline, session, collection, limiter >>
    /\ \E total \in (0..MaxTotal) \cup {LargeTotal} :
      \E wins \in (0..Min(total, MaxTotal))
                    \cup { total - k : k \in 0..Min(total, MaxTotal) } :
        call' = [ fn |-> "wilson_confidence_interval", wins |-> wins, total |-> total,
                  result |-> wilson_confidence_interval(wins, total) ]

MIN_GAMES_TOGETHER == 50
GamesSamples ==
    (0..MaxGames) \cup { SAMPLE_SIZE_MEDIUM_CONFIDENCE - 1, SAMPLE_SIZE_MEDIUM_CONFIDENCE,
                         SAMPLE_SIZE_MEDIUM_CONFIDENCE + 1,
                         SAMPLE_SIZE_HIGH_CONFIDENCE - 1, SAMPLE_SIZE_HIGH_CONFIDENCE,
                         SAMPLE_SIZE_HIGH_CONFIDENCE + 1 }
MinGamesSamples == { 1, MIN_GAMES_TOGETHER, SAMPLE_SIZE_MEDIUM_CONFIDENCE }

\* One turn of the loop over teammate_stats.items() for a teammate of the
\* given games: the two filters, then add_sample_size_warning for a teammate
\* that passed them.
CallTeammateTurn ==
    /\ call.fn = "none"
    /\ UNCHANGED << pipeline, session, collection, limiter >>
    /\ \E games \in GamesSamples, min_games \in MinGamesSamples, cached \in BOOLEAN :
        LET win_rates == IF cached THEN (1 :> 5000) ELSE Empty
            retained  == TeammateRetained([games |-> games, wins |-> 0], 1, min_games,
                                         win_rates)
        IN  call' = [ fn |-> "teammate_turn", games |-> games, min_games |-> min_games,
                      cached |-> cached, retained |-> retained,
                      result |-> IF retained THEN add_sample_size_warning(games)
                                             ELSE << None, None >> ]

Players == { 1, 2, 3 }
PlayerHeroes == { 1, 2 }
\* What a player did in a match: absent, or one hero on one team.
PlayerSlots ==
    { [ team |-> 2, hero_name |-> 0 ] }
    \cup { [ team |-> t, hero_name |-> h ] : t \in { 0, 1 }, h \in PlayerHeroes }
\* The match logs by player: one row per (match_id, username), the key of
\* match_participants; the winner of match m is team m % 2.
PlayerLogs ==
    { { [ match_id |-> mp[1], username |-> mp[2], hero_name |-> f[mp].hero_name,
          team |-> f[mp].team, won |-> (f[mp].team = mp[1] % 2) ] :
          mp \in { x \in Matches \X Players : f[x].team # 2 } } :
      f \in [Matches \X Players -> PlayerSlots] }

\* The teammate counting of one hero over a log by player.
CallTeammateStats ==
    /\ call.fn = "none"
    /\ UNCHANGED << pipeline, session, collection, limiter >>
    /\ \E rows \in PlayerLogs :
         call' = [ fn |-> "teammate_stats", rows |-> rows, hero |-> 1,
                   result |-> TeammateStats(rows, 1) ]

\* Win rates of up to six decimals, in units of 1e-6; no two of them add up
\* to a tie at the fourth decimal.
WinRateFine == { 0, 123456, 500000, 500049, 520000, 550000, 999951, 1000000 }

CallAverage ==
    /\ call.fn = "none"
    /\ UNCHANGED << pipeline, session, collection, limiter >>
    /\ \E a \in WinRateFine, b \in WinRateFine :
         call' = [ fn |-> "expected_wr_average", wr_a |-> a, wr_b |-> b,
                   result  |-> expected_wr_average_fine(a, b),
                   swapped |-> expected_wr_average_fine(b, a) ]

\* The significance levels and pairs' games of the batches below: alpha of
\* 0.002, 0.03125 and 0.05, all within the range the script accepts.
BatchAlphas == { 2000, 31250, 50000 }
BatchGames == { 2, 6, 10 }

\* One hero's batch as analyze_teammate_synergies builds it: the record of a
\* teammate (both win rates 0.5), n times over, then bonferroni_correction.
CallSynergyBatch ==
    /\ call.fn = "none"
    /\ UNCHANGED << pipeline, session, collection, limiter >>
    /\ \E games \in BatchGames, n \in 1..2, a \in BatchAlphas :
       \E wins \in { 0, games \div 2, games } :
         LET stats == [games |-> games, wins |-> wins]
             synergies == [ i \in 1..n |->
                              synergy_data(i, stats, RATE_UNIT \div 2,
                                           RATE_UNIT \div 2, a) ]
         IN  call' = [ fn |-> "synergy_batch", stats |-> stats, alpha |-> a,
                       result |-> bonferroni_correction(synergies, a) ]

NextStats ==
    \/ CallBonferroni \/ CallSynergyRates \/ CallWilson \/ CallTeammateTurn
    \/ CallTeammateStats \/ CallAverage \/ CallSynergyBatch

SpecStats == InitStats /\ [][NextStats]_vars

(***************************************************************************)
(* Claims on the statistics functions (SpecStats)                          *)
(***************************************************************************)
Abs(x) == IF x < 0 THEN 0 - x ELSE x

\* q is n/d rounded to the nearest integer, ties to even.
IsRounded(q, n, d) ==
    /\ 2 * Abs(q * d - n) <= d
    /\ 2 * Abs(q * d - n) = d => q % 2 = 0

\* C1 (as stated): the synergy_score of a record equals
\* round(actual_win_rate - expected_win_rate, 4) taken from the record's own
\* actual_win_rate and expected_win_rate fields.
C1_ScoreFromRecordFields ==
    call.fn = "synergy_rates" =>
        call.result.synergy_score
            = call.result.actual_win_rate - call.result.expected_win_rate

\* C1 (amended): the synergy_score of a record is the unrounded rate
\* wins_together / games_together minus the record's expected_win_rate, rounded
\* once to 4 decimals; it is within 0.0001 of actual_win_rate - expected_win_rate.
C1_ScoreFromUnroundedRate ==
    call.fn = "synergy_rates" =>
        LET r == call.result
            g == call.stats.games
        IN  /\ IsRounded(r.synergy_score,
                         call.stats.wins * RATE_UNIT - r.expected_win_rate * g, g)
            /\ Abs(r.synergy_score - (r.actual_win_rate - r.expected_win_rate)) <= 1

\* C1 witness: a record whose wins/games lies exactly between two 4-decimal
\* values, where the score and the difference of the fields part.
C1_Witness ==
    /\ call.fn = "synergy_rates"
    /\ 2 * ((call.stats.wins * RATE_UNIT) % call.stats.games) = call.stats.games
    /\ call.result.synergy_score
           # call.result.actual_win_rate - call.result.expected_win_rate

\* C3 (as stated): for N = 0 the batch is returned unchanged; for N >= 1 every
\* record has bonferroni_alpha = alpha / N and significant_bonferroni =
\* (p_value < the reported bonferroni_alpha); for N = 1 bonferroni_alpha = alpha.
C3_BonferroniExact ==
    call.fn = "bonferroni_correction" =>
        LET n == Len(call.synergies)
        IN  /\ n = 0 => call.result = call.synergies
            /\ n >= 1 =>
                 \A i \in 1..n :
                    /\ call.result[i].bonferroni_alpha * n = call.alpha
                    /\ call.result[i].significant_bonferroni
                         <=> (call.result[i].p_value < call.result[i].bonferroni_alpha)
            /\ n = 1 => call.result[1].bonferroni_alpha = call.alpha

\* C3 (amended): for N = 0 the batch is returned unchanged; for N >= 1 every
\* record keeps its p_value, has bonferroni_alpha = round(alpha / N, 6) and
\* significant_bonferroni = (p_value < alpha / N) for the unrounded alpha / N;
\* for N = 1 bonferroni_alpha = alpha.
C3_BonferroniRounded ==
    call.fn = "bonferroni_correction" =>
        LET n == Len(call.synergies)
        IN  /\ n = 0 => call.result = call.synergies
            /\ n >= 1 =>
                 /\ Len(call.result) = n
                 /\ \A i \in 1..n :
                      /\ call.result[i].p_value = call.synergies[i].p_value
                      /\ IsRounded(call.result[i].bonferroni_alpha, call.alpha, n)
                      /\ call.result[i].significant_bonferroni
                           <=> (call.synergies[i].p_value * n < call.alpha)
            /\ n = 1 => call.result[1].bonferroni_alpha = call.alpha

\* C3 witness: a batch of several records, alpha / N not a 6-decimal number,
\* one record significant after the correction and one not.
C3_Witness ==
    /\ call.fn = "bonferroni_correction"
    /\ Len(call.synergies) >= 2
    /\ call.alpha % Len(call.synergies) # 0
    /\ \E i, j \in 1..Len(call.result) :
          /\ call.result[i].significant_bonferroni
          /\ ~call.result[j].significant_bonferroni

\* C10 (as stated): for 0 <= wins <= total the interval satisfies
\* 0 <= lower <= upper <= 1 and, when total > 0, lower <= wins/total <= upper.
C10_WilsonContainsRate ==
    call.fn = "wilson_confidence_interval" =>
        LET lower == call.result[1]
            upper == call.result[2]
        IN  /\ 0 <= lower /\ lower <= upper /\ upper <= RATE_UNIT
            /\ call.total > 0 =>
                 /\ lower * call.total <= call.wins * RATE_UNIT
                 /\ call.wins * RATE_UNIT <= upper * call.total

\* C10 (amended): for 0 <= wins <= total the interval satisfies
\* 0 <= lower <= upper <= 1 and, when total > 0,
\* lower <= round(wins/total, 4) <= upper: the interval contains the win rate as
\* every record reports it, rounded to 4 decimals.
C10_WilsonContainsRoundedRate ==
    call.fn = "wilson_confidence_interval" =>
        LET lower == call.result[1]
            upper == call.result[2]
        IN  /\ 0 <= lower /\ lower <= upper /\ upper <= RATE_UNIT
            /\ call.total > 0 =>
                 /\ lower <= Round(call.wins * RATE_UNIT, call.total)
                 /\ Round(call.wins * RATE_UNIT, call.total) <= upper

\* C10 witness: an interval of a total > 0 with 0 < lower and upper < 1.
C10_Witness ==
    /\ call.fn = "wilson_confidence_interval"
    /\ call.total > 0 /\ 0 < call.wins /\ call.wins < call.total
    /\ 0 < call.result[1] /\ call.result[1] < call.result[2]
    /\ call.result[2] < RATE_UNIT

(***************************************************************************)
(* The win-rate estimator's results and rows against the match log         *)
(***************************************************************************)
\* The hero's rows of the match log, with and without a rank tier.
LogGames(h) == { r \in match_participants : r.hero_name = h }
\* The hero's rows whose player has a rank tier.
RankedGames(h) == { r \in LogGames(h) : r.rank_tier # None }
\* The hero's rows of one tier.
TierGames(h, t) == { r \in LogGames(h) : r.rank_tier = t }
LoggedHeroes == { r.hero_name : r \in match_participants }
WinRateReturned == pc = "idle" /\ "winrate" \in done
OverallRows(h) == { r \in character_stats : r.hero_name = h /\ r.rank_tier = None }
TierRows(h, t) == { r \in character_stats : r.hero_name = h /\ r.rank_tier = t }

C7_OverallAggregatesAllTiers ==
    \A h \in DOMAIN wr_results :
      LET res == wr_results[h]
      IN  /\ res.overall.total_games
               = SumOver([t \in Tiers |-> Cardinality(TierGames(h, t))], Tiers)
          /\ res.overall.wins
               = SumOver([t \in Tiers |->
                            Cardinality({ r \in TierGames(h, t) : r.won })], Tiers)
          /\ res.overall.total_games
               >= SumOver([t \in DOMAIN res.by_rank |-> res.by_rank[t].total_games],
                          DOMAIN res.by_rank)
          /\ \A r \in OverallRows(h) : /\ r.total_games = res.overall.total_games
                                       /\ r.wins = res.overall.wins

\* A hero of the result with games in a tier that by_rank does not hold.
C7_Witness ==
    \E h \in DOMAIN wr_results :
      /\ \E t \in Tiers : TierGames(h, t) # {} /\ t \notin DOMAIN wr_results[h].by_rank
      /\ \E t \in Tiers : \E r \in TierGames(h, t) : r.won
      /\ wr_results[h].overall.total_games >
           SumOver([t \in DOMAIN wr_results[h].by_rank |->
                      wr_results[h].by_rank[t].total_games],
                   DOMAIN wr_results[h].by_rank)

\* C8: for a hero of the result, by_rank holds tier t, and a row of (hero, t)
\* is persisted, iff the hero's games in t are >= min_games_per_rank.
C8_TierRetainedIffEnoughGames ==
    /\ \A h \in DOMAIN wr_results : \A t \in Tiers :
         /\ t \in DOMAIN wr_results[h].by_rank
              <=> Cardinality(TierGames(h, t)) >= min_games_per_rank
         /\ TierRows(h, t) # {}
              <=> Cardinality(TierGames(h, t)) >= min_games_per_rank
         /\ t \in DOMAIN wr_results[h].by_rank =>
              wr_results[h].by_rank[t].total_games = Cardinality(TierGames(h, t))
    /\ \A h \in DOMAIN wr_results : DOMAIN wr_results[h].by_rank \subseteq Tiers

\* A hero with a tier of exactly min_games_per_rank games, retained and
\* persisted, and a hero with a tier of min_games_per_rank - 1 games, dropped.
C8_Witness ==
    /\ \E h \in DOMAIN wr_results : \E t \in Tiers :
         /\ Cardinality(TierGames(h, t)) = min_games_per_rank
         /\ t \in DOMAIN wr_results[h].by_rank /\ TierRows(h, t) # {}
    /\ \E h \in DOMAIN wr_results : \E t \in Tiers :
         /\ Cardinality(TierGames(h, t)) = min_games_per_rank - 1
         /\ t \notin DOMAIN wr_results[h].by_rank /\ TierRows(h, t) = {}

\* wins + losses == total_games with 0 <= wins <= total_games.
CountsConsistent(rec) ==
    /\ rec.wins + rec.losses = rec.total_games
    /\ 0 <= rec.wins /\ rec.wins <= rec.total_games

\* C9: every record the win-rate estimator returns or persists, per tier and
\* overall, has wins + losses == total_games and 0 <= wins <= total_games.
C9_WinsLossesTotal ==
    /\ \A h \in DOMAIN wr_results :
         /\ CountsConsistent(wr_results[h].overall)
         /\ \A t \in DOMAIN wr_results[h].by_rank :
              CountsConsistent(wr_results[h].by_rank[t])
    /\ \A r \in character_stats : CountsConsistent(r)

\* A returned hero with a win and a loss, overall and in a tier, and persisted.
C9_Witness ==
    \E h \in DOMAIN wr_results :
      /\ wr_results[h].overall.wins > 0 /\ wr_results[h].overall.losses > 0
      /\ \E t \in DOMAIN wr_results[h].by_rank :
           wr_results[h].by_rank[t].wins > 0 /\ wr_results[h].by_rank[t].losses > 0
      /\ \E r \in character_stats : r.hero_name = h /\ r.wins > 0 /\ r.losses > 0

(***************************************************************************)
(* The synergy estimator's records and rows against the match log          *)
(***************************************************************************)
SynergyReturned == pc = "idle" /\ "synergy" \in done
\* The rosters (match, team) of the log that hold both h and t.
GamesTogether(h, t) ==
    Cardinality({ m \in LogGames(h) :
                    \E r \in LogGames(t) : r.match_id = m.match_id /\ r.team = m.team })
\* The teammates the analysis of h is to retain.
RetainedTeammates(h) ==
    { t \in Heroes \ {h} : /\ GamesTogether(h, t) > 0
                           /\ GamesTogether(h, t) >= min_games_together
                           /\ t \in DOMAIN char_win_rates }
BatchTeammates(h) == { batch[h][i].teammate : i \in 1..Len(batch[h]) }

\* C2: the synergy store holds at most one row per unordered hero pair per
\* tier, and every row has hero_a < hero_b.
C2_OneCanonicalRowPerPair ==
    /\ \A r \in synergy_stats : r.hero_a < r.hero_b
    /\ \A r1, r2 \in synergy_stats :
         ({r1.hero_a, r1.hero_b} = {r2.hero_a, r2.hero_b} /\ r1.rank_tier = r2.rank_tier)
           => r1 = r2

\* A run returned in which a pair was cached from both heroes' sides, the
\* store holding the pair under both tier labels.
C2_Witness ==
    /\ SynergyReturned
    /\ \E a, b \in DOMAIN batch :
         /\ a < b /\ b \in BatchTeammates(a) /\ a \in BatchTeammates(b)
         /\ \E r \in synergy_stats : r.hero_a = a /\ r.hero_b = b /\ r.rank_tier = None
         /\ \E r \in synergy_stats : r.hero_a = a /\ r.hero_b = b /\ r.rank_tier = "Gold"

\* C4 as stated: every record of H carries bonferroni_alpha = alpha / N, N the
\* number of teammates retained for H.
C4_BonferroniAlphaExact ==
    \A h \in DOMAIN batch :
      /\ Len(batch[h]) = Cardinality(RetainedTeammates(h))
      /\ \A i \in 1..Len(batch[h]) :
           batch[h][i].bonferroni_alpha * Cardinality(RetainedTeammates(h)) = alpha

\* C4, amended: every record of H, those behind the top-N cut included,
\* carries bonferroni_alpha = round(alpha / N, 6), N the number of teammates
\* retained for H, whatever the other heroes' batches are.
C4_BonferroniAlphaPerHeroBatch ==
    \A h \in DOMAIN batch :
      /\ Len(batch[h]) = Cardinality(RetainedTeammates(h))
      /\ \A i \in 1..Len(batch[h]) :
           batch[h][i].bonferroni_alpha
             = Round(alpha, Cardinality(RetainedTeammates(h)))

\* A run with a hero of two retained teammates, one of them behind the cut of
\* the report, and a hero of one.
C4_Witness ==
    /\ SynergyReturned
    /\ \E h \in DOMAIN batch :
         /\ Len(batch[h]) = 2
         /\ Len(syn_results[h].synergies) = TOP_N_SYNERGIES
         /\ batch[h][2].bonferroni_alpha = Round(alpha, 2)
    /\ \E h \in DOMAIN batch :
         Len(batch[h]) = 1 /\ batch[h][1].bonferroni_alpha = alpha

\* C5: every synergy computed, reported or persisted for H has games_together
\* >= min_games_together and a teammate of the cached win-rate table; the
\* teammates failing either are left out, and every hero of the table with
\* matches gets its result whatever teammates the table lacks.
C5_RetainedTeammatesOnly ==
    /\ \A h \in DOMAIN batch :
         /\ BatchTeammates(h) = RetainedTeammates(h)
         /\ \A i \in 1..Len(batch[h]) :
              /\ batch[h][i].games_together = GamesTogether(h, batch[h][i].teammate)
              /\ batch[h][i].games_together >= min_games_together
              /\ batch[h][i].teammate \in DOMAIN char_win_rates
    /\ \A h \in DOMAIN syn_results :
         \A i \in 1..Len(syn_results[h].synergies) :
           \E j \in 1..Len(batch[h]) : syn_results[h].synergies[i] = batch[h][j]
    /\ \A r \in synergy_stats :
         /\ r.games_together = GamesTogether(r.hero_a, r.hero_b)
         /\ r.games_together >= min_games_together
         /\ {r.hero_a, r.hero_b} \subseteq DOMAIN load_character_win_rates(character_stats)
    /\ SynergyReturned =>
         \A h \in DOMAIN char_win_rates : LogGames(h) # {} => h \in DOMAIN syn_results

\* A run returned in which a hero has a teammate retained and one with enough
\* games together but no cached win rate, and a hero behind it has its result.
C5_Witness ==
    /\ SynergyReturned
    /\ \E h \in DOMAIN syn_results :
         /\ Len(batch[h]) > 0
         /\ \E t \in Heroes \ {h} :
              /\ GamesTogether(h, t) >= min_games_together
              /\ t \notin DOMAIN char_win_rates
         /\ \E g \in DOMAIN syn_results : g > h

(***************************************************************************)
(* Claims on the statistics functions, continued (SpecStats)               *)
(***************************************************************************)
\* C11 as stated: total == 0 gives exactly (0.0, 0.0); wins == 0 with
\* total > 0 gives lower == 0.0; wins == total > 0 gives upper == 1.0 with
\* lower < 1.0.
C11_WilsonEdgesStrict ==
    call.fn = "wilson_confidence_interval" =>
        /\ call.total = 0 => call.result = << 0, 0 >>
        /\ (call.wins = 0 /\ call.total > 0) => call.result[1] = 0
        /\ (call.wins = call.total /\ call.total > 0) =>
             call.result[2] = RATE_UNIT /\ call.result[1] < RATE_UNIT

\* C11, amended: total == 0 gives exactly (0.0, 0.0); wins == 0 with
\* total > 0 gives lower == 0.0; wins == total > 0 gives upper == 1.0 with
\* lower <= 1.0, and lower < 1.0 while total < 76826 (above it the lower
\* bound rounds to 1.0).
C11_WilsonEdges ==
    call.fn = "wilson_confidence_interval" =>
        /\ call.total = 0 => call.result = << 0, 0 >>
        /\ (call.wins = 0 /\ call.total > 0) => call.result[1] = 0
        /\ (call.wins = call.total /\ call.total > 0) =>
             /\ call.result[2] = RATE_UNIT
             /\ call.result[1] <= RATE_UNIT
             /\ call.total < 76826 => call.result[1] < RATE_UNIT

\* An interval of an all-wins record of a small total: upper 1.0, lower
\* strictly between 0 and 1.
C11_Witness ==
    /\ call.fn = "wilson_confidence_interval"
    /\ call.wins = call.total /\ call.total > 1
    /\ call.result[2] = RATE_UNIT
    /\ 0 < call.result[1] /\ call.result[1] < RATE_UNIT

(***************************************************************************)
(* Claims on the synergy records, continued                                *)
(***************************************************************************)
\* The baseline model of the given name applied to two win rates.
BaselineModel(name, wr_a, wr_b) ==
    IF name = "additive" THEN expected_wr_additive(wr_a, wr_b)
                         ELSE expected_wr_average(wr_a, wr_b)

\* C12: the expected_win_rate of every synergy record is the selected baseline
\* model (average by default, additive when selected) applied to the two
\* heroes' overall win rates, and the recorded baseline_model names it.
C12_ExpectedFromSelectedBaseline ==
    /\ \A h \in DOMAIN batch : \A i \in 1..Len(batch[h]) :
         batch[h][i].expected_win_rate
           = BaselineModel(baseline, char_win_rates[h],
                           char_win_rates[batch[h][i].teammate])
    /\ \A r \in synergy_stats : r.baseline_model = baseline

\* C13: the confidence level is a function of games_together alone: >= 500
\* "high" without a warning, 100..499 "medium" with a warning citing the game
\* count, < 100 "low" with a warning; a teammate is retained or discarded by
\* the two filters alone, whatever its level.
C13_ConfidenceLevelByGames ==
    call.fn = "teammate_turn" =>
        /\ call.retained <=> (call.games >= call.min_games /\ call.cached)
        /\ call.retained =>
             LET level   == call.result[1]
                 warning == call.result[2]
             IN  /\ level \in { "high", "medium", "low" }
                 /\ level = "high" <=> call.games >= 500
                 /\ level = "medium" <=> (100 <= call.games /\ call.games < 500)
                 /\ level = "low" <=> call.games < 100
                 /\ level = "high" => warning = None
                 /\ level # "high" => (DOMAIN warning = { "kind", "games" }
                                        /\ warning.games = call.games)
                 /\ level = "medium" => warning.kind = "Moderate sample size"
                 /\ level = "low" => warning.kind = "Low sample size"

\* A teammate of exactly 500 games at level "high".
C13_Witness ==
    /\ call.fn = "teammate_turn"
    /\ call.retained /\ call.games = 500
    /\ call.result = << "high", None >>

NonIncreasingByScore(l) ==
    \A i, j \in DOMAIN l : i < j => l[i].synergy_score >= l[j].synergy_score

\* The row of synergy_stats that holds the record the hero's batch has for a
\* teammate, under the current run's rank tier.
Persisted(hero, synergy) ==
    \E r \in synergy_stats :
        /\ << r.hero_a, r.hero_b >> = CanonicalPair(hero, synergy.teammate)
        /\ r.rank_tier = rank_tier
        /\ r.games_together = synergy.games_together
        /\ r.wins_together = synergy.wins_together
        /\ r.win_rate = synergy.actual_win_rate
        /\ r.expected_win_rate = synergy.expected_win_rate
        /\ r.synergy_score = synergy.synergy_score
        /\ r.p_value = synergy.p_value

\* C14: the list reported for a hero is non-increasing in synergy_score and is
\* the first min(N, size) records of the hero's whole sorted batch, and every
\* record of the whole batch is persisted.
C14_TopNOfSortedBatch ==
    \A h \in DOMAIN batch :
        /\ h \in DOMAIN syn_results
        /\ NonIncreasingByScore(batch[h])
        /\ NonIncreasingByScore(syn_results[h].synergies)
        /\ syn_results[h].synergies =
               SubSeq(batch[h], 1, Min(TOP_N_SYNERGIES, Len(batch[h])))
        /\ \A i \in DOMAIN batch[h] : Persisted(h, batch[h][i])

\* A hero whose batch is longer than the reported list and holds two scores.
C14_Witness ==
    \E h \in DOMAIN batch :
        /\ Len(batch[h]) > Len(syn_results[h].synergies)
        /\ syn_results[h].synergies # << >>
        /\ batch[h][1].synergy_score > batch[h][Len(batch[h])].synergy_score
        /\ \A i \in DOMAIN batch[h] : Persisted(h, batch[h][i])

\* The rosters (match, team) of the call's log that hold both h and t.
RostersWithBoth(rows, h, t) ==
    { << r.match_id, r.team >> :
        r \in { x \in rows : /\ x.hero_name = h
                             /\ \E y \in rows : /\ y.match_id = x.match_id
                                                /\ y.team = x.team
                                                /\ y.hero_name = t } }

\* C15: for hero H and teammate T, games_together is the number of (match,
\* team) rosters that hold both H and T, each roster counted once, and
\* wins_together the number of those rosters that won; so 0 <= wins_together
\* <= games_together.
C15_GamesTogetherCountsRosters ==
    call.fn = "teammate_stats" =>
        \A t \in DOMAIN call.result :
            LET rosters == RostersWithBoth(call.rows, call.hero, t)
                stats   == call.result[t]
            IN  /\ stats.games = Cardinality(rosters)
                /\ stats.wins = Cardinality({ r \in rosters : r[2] = r[1] % 2 })
                /\ 0 <= stats.wins /\ stats.wins <= stats.games

\* The games h has with each teammate that reached min_games_together.
PassedGames(h) ==
    { GamesTogether(h, t) :
        t \in { x \in Heroes \ {h} : /\ GamesTogether(h, x) > 0
                                     /\ GamesTogether(h, x) >= min_games_together } }
\* The games h has with each teammate of its computed synergies.
ComputedGames(h) == { batch[h][i].games_together : i \in 1..Len(batch[h]) }
Largest(S) == CHOOSE g \in S : \A x \in S : x <= g
RequiredSizes(block) ==
    /\ block.required_for_3pct_synergy = 2178
    /\ block.required_for_5pct_synergy = 783
    /\ block.required_for_10pct_synergy = 194

\* C16 as stated: every hero entry carries a power-analysis block whose
\* current_max_samples is the largest games_together among the hero's computed
\* synergies, with the required sample sizes for 3%, 5% and 10% effects from a
\* 0.5 baseline.
C16_PowerBlockFromComputedSynergies ==
    \A h \in DOMAIN syn_results :
        LET block == syn_results[h].power_analysis
        IN  /\ block # NoBlock
            /\ ComputedGames(h) # {}
            /\ block.current_max_samples = Largest(ComputedGames(h))
            /\ RequiredSizes(block)

\* C16, amended: every hero entry carries power_analysis; it is None when no
\* teammate of the hero reached min_games_together, and otherwise a block whose
\* current_max_samples is the largest games_together among the teammates that
\* reached min_games_together, a synergy computed for them or not, with the
\* required sample sizes for 3%, 5% and 10% effects from a 0.5 baseline.
C16_PowerBlockFromPassedTeammates ==
    \A h \in DOMAIN syn_results :
        LET block == syn_results[h].power_analysis
        IN  IF PassedGames(h) = {} THEN block = NoBlock
            ELSE /\ block # NoBlock
                 /\ block.current_max_samples = Largest(PassedGames(h))
                 /\ RequiredSizes(block)

\* A hero entry whose block counts the games with a teammate for which no
\* synergy was computed.
C16_Witness ==
    \E h \in DOMAIN syn_results :
        /\ syn_results[h].power_analysis # NoBlock
        /\ syn_results[h].power_analysis.current_max_samples = Largest(PassedGames(h))
        /\ ComputedGames(h) = {}
        /\ RequiredSizes(syn_results[h].power_analysis)

\* The heroes of the loaded table the loop has passed.
AnalyzedHeroes ==
    IF pc = "synergy" THEN DOMAIN char_win_rates \ { heroes[i] : i \in DOMAIN heroes }
    ELSE IF "synergy" \in done THEN DOMAIN char_win_rates
    ELSE {}

\* C17 as stated: a hero of the win-rate table with zero qualifying teammates,
\* a hero with no matches at all included, yields a result entry with an empty
\* synergy list, and the analysis of the other heroes goes on.
C17_EmptyListForEveryHero ==
    \A h \in AnalyzedHeroes :
        RetainedTeammates(h) = {} =>
            /\ h \in DOMAIN syn_results
            /\ syn_results[h].synergies = << >>

\* C17, amended: a hero of the win-rate table with matches and zero qualifying
\* teammates yields a result entry with an empty synergy list; a hero with no
\* matches at all is skipped and has no entry; either way the loop goes on and
\* every hero of the table with matches has its entry when the run returns.
C17_EmptyListOrSkipped ==
    /\ \A h \in AnalyzedHeroes :
         IF LogGames(h) = {} THEN h \notin DOMAIN syn_results
         ELSE /\ h \in DOMAIN syn_results
              /\ RetainedTeammates(h) = {} => syn_results[h].synergies = << >>
    /\ DOMAIN syn_results \subseteq AnalyzedHeroes
    /\ SynergyReturned =>
         DOMAIN syn_results = { h \in DOMAIN char_win_rates : LogGames(h) # {} }

\* A run returned in which a hero with no matches was skipped and a hero
\* behind it, with matches but no teammate, has its entry with an empty list.
C17_Witness ==
    /\ SynergyReturned
    /\ DOMAIN char_win_rates = Heroes
    /\ \E h, g \in Heroes :
         /\ h < g /\ LogGames(h) = {} /\ h \notin DOMAIN syn_results
         /\ LogGames(g) # {} /\ RetainedTeammates(g) = {}
         /\ g \in DOMAIN syn_results /\ syn_results[g].synergies = << >>

WinKeys(table) == { << r.hero_name, Coalesce(r.rank_tier) >> : r \in table }
SynKeys(table) == { << r.hero_a, r.hero_b, Coalesce(r.rank_tier) >> : r \in table }
\* The heroes a whole win-rate run over the log persists, and its keys.
PassingHeroes ==
    { h \in LoggedHeroes : Cardinality(RankedGames(h)) >= min_games_overall }
WholeWinKeys ==
    { << h, "" >> : h \in PassingHeroes }
    \cup { x \in PassingHeroes \X Tiers :
             Cardinality(TierGames(x[1], x[2])) >= min_games_per_rank }
\* The keys a whole synergy run for a tier persists once the win rates are cached.
WholeSynKeys(tier) ==
    { << pair[1], pair[2], Coalesce(tier) >> :
        pair \in { x \in PassingHeroes \X PassingHeroes :
                     /\ x[1] < x[2]
                     /\ GamesTogether(x[1], x[2]) > 0
                     /\ GamesTogether(x[1], x[2]) >= min_games_together } }

\* C18: recomputation is idempotent. Over an unchanged log and parameters, a
\* step of either estimator that recomputes records already persisted leaves
\* every persisted value as it was; once the keys of a whole run are present,
\* no later run adds or changes a record; and no key has two rows.
C18_RecomputeIdempotent ==
    [][ /\ WinKeys(character_stats') = WinKeys(character_stats)
            => character_stats' = character_stats
        /\ SynKeys(synergy_stats') = SynKeys(synergy_stats)
            => synergy_stats' = synergy_stats
        /\ WholeWinKeys \subseteq WinKeys(character_stats)
            => character_stats' = character_stats
        /\ \A tier \in RankTierArgs :
             (WholeSynKeys(tier) \subseteq SynKeys(synergy_stats)
              /\ PassingHeroes \subseteq DOMAIN load_character_win_rates(character_stats))
               => { r \in synergy_stats' : r.rank_tier = tier }
                    = { r \in synergy_stats : r.rank_tier = tier }
        /\ Cardinality(WinKeys(character_stats')) = Cardinality(character_stats')
        /\ Cardinality(SynKeys(synergy_stats')) = Cardinality(synergy_stats')
      ]_vars

\* A second synergy run under way: its first hero's batch is upserted again,
\* and the pair of two heroes still to come is in the store from the run before.
C18_Witness ==
    /\ pc = "synergy"
    /\ \E h \in DOMAIN batch : batch[h] # << >>
    /\ \E i, j \in DOMAIN heroes :
         /\ i < j
         /\ << heroes[i], heroes[j], Coalesce(rank_tier) >> \in SynKeys(synergy_stats)

(***************************************************************************)
(* Claims on commits and errors (SpecCrash)                                *)
(***************************************************************************)
\* The run under way, or the one that was stopped.
CurrentRun == IF ended # NoEnd THEN ended[1].run ELSE pc
\* The heroes of the run's loop, and those whose turn is over.
LoopHeroes ==
    IF CurrentRun = "winrate" THEN get_all_heroes(match_participants)
    ELSE SortedSeq(DOMAIN char_win_rates)
TurnsOver == SubSeq(LoopHeroes, 1, Len(LoopHeroes) - Len(heroes))
\* The heroes whose turn reaches its commit.
ReachesCommit(h) ==
    IF CurrentRun = "winrate" THEN Cardinality(RankedGames(h)) >= min_games_overall
    ELSE LogGames(h) # {}

\* character_stats after the whole turn of a hero that passed the threshold.
WholeCharacterTurn(table, hero) ==
    LET matches  == winrate_query_hero_matches(match_participants, hero)
        by_rank  == group_matches_by_rank(matches)
        retained == { rank \in DOMAIN by_rank :
                        by_rank[rank].wins + by_rank[rank].losses >= min_games_per_rank }
        rank_stats == [ rank \in retained |->
                          calculate_win_rate_stats(
                              by_rank[rank].wins,
                              by_rank[rank].wins + by_rank[rank].losses) ]
    IN  cache_character_stats(CacheRanks(table, hero, rank_stats, retained), hero, None,
                              OverallStats(by_rank, retained))
\* synergy_stats after the whole turn of a hero with matches.
WholeHeroTurn(table, hero) ==
    LET order == CHOOSE o \in TeammateOrders(match_participants, hero) : TRUE
    IN  CacheSynergies(table, hero, rank_tier,
                       HeroSynergies(match_participants, hero, char_win_rates,
                                     min_games_together, alpha, order))
RECURSIVE ReplayCharacters(_, _)
ReplayCharacters(table, hs) ==
    IF hs = << >> THEN table
    ELSE ReplayCharacters(WholeCharacterTurn(table, Head(hs)), Tail(hs))
RECURSIVE ReplayHeroes(_, _)
ReplayHeroes(table, hs) ==
    IF hs = << >> THEN table
    ELSE ReplayHeroes(WholeHeroTurn(table, Head(hs)), Tail(hs))

\* C19: both estimators commit once per hero, after all of that hero's records
\* were upserted. At every point of a run, and after a crash during the k-th
\* hero, the committed tables are the tables of the run's start with the whole
\* turns of the heroes before the k-th that reached their commit, and nothing
\* of the k-th hero's turn; after the crash that is all the tables hold.
C19_CommitOncePerHero ==
    /\ CurrentRun \in { "winrate", "synergy" } =>
         /\ committed = SelectSeq(TurnsOver, ReachesCommit)
         /\ txn # NoTxn => txn[1].hero = Head(heroes)
    /\ CurrentRun = "winrate" =>
         /\ durable_character_stats = ReplayCharacters(run_start[1], committed)
         /\ durable_synergy_stats = run_start[2]
    /\ CurrentRun = "synergy" =>
         /\ durable_synergy_stats = ReplayHeroes(run_start[2], committed)
         /\ durable_character_stats = run_start[1]
    /\ (txn = NoTxn \/ ended # NoEnd) =>
         /\ character_stats = durable_character_stats
         /\ synergy_stats = durable_synergy_stats

\* A synergy run crashed in the turn of its second hero after every upsert of
\* the turn and before the commit: the first hero's pair rows are committed,
\* the pair of the second and third hero, upserted in that turn, is not.
C19_Witness ==
    /\ ended # NoEnd /\ ended[1].kind = "crash" /\ ended[1].run = "synergy"
    /\ ended[1].left = 0
    /\ Len(committed) = 1 /\ ended[1].rest # << >>
    /\ \E r \in durable_synergy_stats : r.hero_a = committed[1]
    /\ GamesTogether(ended[1].hero, ended[1].rest[1]) > 0
    /\ \A r \in synergy_stats :
         ~(r.hero_a = ended[1].hero /\ r.hero_b = ended[1].rest[1])

\* C20: a persistence error raised while upserting one hero's records does not
\* abort the run: the run goes on with the next hero, and when it returns the
\* heroes behind the failed one have their results and committed records.
C20_RunSurvivesUpsertError ==
    (ended # NoEnd /\ ended[1].kind = "error") =>
        \/ pc = ended[1].run
        \/ /\ pc = "idle" /\ ended[1].run \in done
           /\ \A i \in DOMAIN ended[1].rest :
                ReachesCommit(ended[1].rest[i]) =>
                    /\ ended[1].rest[i] \in
                           DOMAIN (IF ended[1].run = "winrate" THEN wr_results
                                                                ELSE syn_results)
                    /\ \E j \in DOMAIN committed : committed[j] = ended[1].rest[i]

C24_AverageIdempotentSymmetric ==
    call.fn = "expected_wr_average" =>
        /\ call.result = call.swapped
        /\ call.wr_a = call.wr_b => call.result * P_PER_RATE = call.wr_a

\* C24, amended: expected_wr_average(a, b) = expected_wr_average(b, a), and
\* expected_wr_average(x, x) = round(x, 4): x itself for a win rate of at most
\* four decimals, where it is also what the four-decimal model of the
\* function gives.
C24_AverageRoundsSymmetric ==
    call.fn = "expected_wr_average" =>
        /\ call.result = call.swapped
        /\ call.wr_a = call.wr_b =>
             /\ call.result = Round(call.wr_a, P_PER_RATE)
             /\ call.wr_a % P_PER_RATE = 0 =>
                  /\ call.result * P_PER_RATE = call.wr_a
                  /\ call.result = expected_wr_average(call.wr_a \div P_PER_RATE,
                                                       call.wr_b \div P_PER_RATE)

\* expected_wr_average(x, x) for an x of six decimals: the result is not x.
C24_Witness ==
    /\ call.fn = "expected_wr_average"
    /\ call.wr_a = call.wr_b /\ call.wr_a % P_PER_RATE # 0
    /\ call.result * P_PER_RATE # call.wr_a
    /\ call.result = Round(call.wr_a, P_PER_RATE)

(***************************************************************************)
(* The two significance flags of a synergy record                          *)
(***************************************************************************)
\* C27: in every record of a hero's batch significant_bonferroni implies
\* significant, and in a batch of one record the two flags are equal.
C27_BonferroniAtLeastAsStrict ==
    call.fn = "synergy_batch" =>
        \A i \in DOMAIN call.result :
          /\ call.result[i].significant_bonferroni => call.result[i].significant
          /\ Len(call.result) = 1 =>
               call.result[i].significant_bonferroni = call.result[i].significant

(***************************************************************************)
(* A pair's record seen from either hero                                   *)
(***************************************************************************)
\* The values of a synergy record that cache_synergy_stats stores.
PairValues(s) ==
    << s.games_together, s.wins_together, s.actual_win_rate, s.expected_win_rate,
       s.synergy_score, s.confidence_interval_95, s.p_value >>

\* C28: when the batch of hero a has a record for teammate b and b's turn has
\* been taken too, b's batch has a record for a with the same games_together,
\* wins_together, actual and expected win rate, synergy_score, interval and
\* p_value, and the pair's row of synergy_stats holds those values.
C28_PairValuesSymmetric ==
    \A a \in DOMAIN batch, b \in DOMAIN batch :
      \A i \in DOMAIN batch[a] :
        batch[a][i].teammate = b =>
          /\ \E j \in DOMAIN batch[b] :
               /\ batch[b][j].teammate = a
               /\ PairValues(batch[b][j]) = PairValues(batch[a][i])
          /\ \A r \in synergy_stats :
               ( << r.hero_a, r.hero_b >> = CanonicalPair(a, b)
                 /\ r.rank_tier = rank_tier )
               => << r.games_together, r.wins_together, r.win_rate,
                     r.expected_win_rate, r.synergy_score,
                     << r.confidence_lower, r.confidence_upper >>, r.p_value >>
                  = PairValues(batch[a][i])

\* A returned synergy analysis in which two heroes of different win rates
\* each have the other in their batch, the pair persisted once.
C28_Witness ==
    /\ pc = "idle" /\ "synergy" \in done
    /\ \E a \in DOMAIN batch, b \in DOMAIN batch :
         /\ a < b
         /\ char_win_rates[a] # char_win_rates[b]
         /\ \E i \in DOMAIN batch[a] : batch[a][i].teammate = b
         /\ \E j \in DOMAIN batch[b] : batch[b][j].teammate = a
         /\ Cardinality({ r \in synergy_stats : r.hero_a = a /\ r.hero_b = b }) = 1

(***************************************************************************)
(* The match collector: deduplication, atomicity, resumption               *)
(***************************************************************************)
\* The match ids of table matches.
StoredIds == { matches_table[i] : i \in DOMAIN matches_table }

\* The step is the loop of collect_matches going past the match at the head
\* of its work list, no exception raised.
PassesMatch ==
    /\ Collecting /\ collect.pc = "match" /\ collect.todo # << >>
    /\ collect'.pc = "match" /\ collect'.todo = Tail(collect.todo)

\* C25: no match_id is ever twice in table matches, and when the loop goes
\* past a match that is already stored it counts it in matches_skipped, not
\* in matches_collected, and inserts neither a match nor a participant.
C25_StoredMatchSkipped ==
    /\ [](\A i, j \in DOMAIN matches_table :
            matches_table[i] = matches_table[j] => i = j)
    /\ [][ ( PassesMatch /\ Head(collect.todo).match_id \in StoredIds )
           => /\ collect'.stats.matches_skipped = collect.stats.matches_skipped + 1
              /\ collect'.stats.matches_collected = collect.stats.matches_collected
              /\ collect'.stats.participants_inserted
                   = collect.stats.participants_inserted
              /\ matches_table' = matches_table
              /\ participant_rows' = participant_rows ]_vars

\* A run that returned after skipping the match another player's turn had
\* stored, with nothing collected.
C25_Witness ==
    /\ collect # NoRun
    /\ collect.pc = "returned"
    /\ collect.stats.matches_skipped = 1
    /\ collect.stats.matches_collected = 0
    /\ collect.stats.players_processed = 1
    /\ match_history_fetched[1] /\ match_history_fetched[2]
    /\ 1 \in StoredIds
    /\ extract_participants(1, Head(History[1])) \subseteq participant_rows

\* C29: once a run is over, returned or interrupted, every row of table
\* matches has its participant rows, and every match the run counted in
\* matches_collected has them.
C29_MatchStoredWithParticipants ==
    ( collect # NoRun /\ ~Collecting ) =>
        /\ \A id \in StoredIds :
             { << id, u >> : u \in Roster(id) } \subseteq participant_rows
        /\ \A id \in collect.collected_ids :
             { << id, u >> : u \in Roster(id) } \subseteq participant_rows


\* The competitive matches of the player's history are all stored, with
\* their participants.
HistoryStored(p) ==
    \A i \in DOMAIN History[p] :
      IsCompetitive(History[p][i]) =>
        /\ History[p][i].match_id \in StoredIds
        /\ { << History[p][i].match_id, u >> : u \in Roster(History[p][i].match_id) }
             \subseteq participant_rows

\* C26: a run works on at most batch_size players, none of them fetched
\* before; a step marks a player fetched only at the end of a turn whose
\* history was fetched and is stored; a step that counts a failure marks no
\* player; and with runs repeated and failures finitely many, every player
\* is eventually fetched for good.
C26_ResumableCollection ==
    /\ [](Collecting =>
            /\ Len(collect.pending) <= collect.batch_size
            /\ \A i \in DOMAIN collect.pending :
                 ~match_history_fetched[collect.pending[i]])
    /\ [][ /\ \A p \in CollectPlayers :
                ( ~match_history_fetched[p] /\ match_history_fetched'[p] )
                => ( collect.pc = "match" /\ HistoryStored(p)' )
           /\ ( Collecting /\ collect'.stats.api_errors = collect.stats.api_errors + 1 )
                => match_history_fetched' = match_history_fetched ]_vars
    /\ <>[](\A p \in CollectPlayers : match_history_fetched[p])
====
